---- MODULE Spec2Model ----
(***************************************************************************)
(* Orbit agent: the task engine (tasks/engine.py, tasks/models.py), the    *)
(* permission policy (permissions/manager.py) and the run loop with its    *)
(* self-correction controller (core/agent.py).                             *)
(*                                                                         *)
(* A task is a record [state, steps]; a step is a record with the fields   *)
(* of TaskStep.  Lists of step objects (the batch of runnable steps) are   *)
(* sequences of positions in task.steps: steps are only ever appended, so  *)
(* a position is the identity of the step object.                          *)
(***************************************************************************)
EXTENDS Naturals, Sequences, FiniteSets, TLC

VARIABLES
    task,        \* the run loop's in-memory Task (local `task` of run_loop)
    store,       \* the persisted Task record (tasks/<id>.json)
    pc,          \* position of the run loop
    batch,       \* runnable_steps of the current iteration (positions)
    cur,         \* position of the for-loop in batch
    err,         \* `error` argument of _handle_step_failure
    attempt,     \* `retry_count` argument of _handle_step_failure
    result,      \* last value returned by an engine query
    safe_mode,   \* OrbitConfig.safe_mode
    interactive, \* Agent.interactive
    faults,      \* failures the environment may still inject
    atask,       \* the approve command's loaded Task: <<t>>, or <<>> before its load
    approvals,   \* approve commands that may still write their flag
    ans,         \* answer to the prompt of the step at the gate or in execution
    verdict,     \* the judge's response for that step
    calls,       \* invocations of skill.execute for the step admitted last
    delay,       \* the last backoff sleep of _handle_step_failure for it
    skill_output, \* the skill result being classified: <<o>>, or <<>>
    file,        \* the content of <persistence_path>/<task.id>.json
    loaded,      \* what the last load_task of another actor returned
    active_tasks, \* OrbitTelegramBot.active_tasks: user id -> task id
    loops,       \* the uplink's execution loops, one per created task
    stopped,     \* the task ids /stop has popped from active_tasks
    ctask,       \* the task whose click step the executor is about to run
    cstep        \* position of that step in ctask.steps; 0 once it has run

vars == <<task, store, pc, batch, cur, err, attempt, result, safe_mode,
          interactive, faults, atask, approvals, ans, verdict, calls, delay,
          skill_output, file, loaded, active_tasks, loops, stopped, ctask,
          cstep>>

\* the locals of the for-loop body that the properties observe
locals == <<ans, verdict, calls, delay>>

\* the task's file as the engine's open/write/read calls see it; the
\* run-loop specifications take a save as one step and follow the saved
\* record in store
disk == <<file, loaded>>

\* the Telegram uplink's state, which Agent.run_loop never touches
uplink == <<active_tasks, loops, stopped>>

\* the task and step of the coordinate chaining
chain == <<ctask, cstep>>

----------------------------------------------------------------------------
(* Bounds of the model *)

MaxPlan == 2          \* steps of an initial plan
MaxSteps == 3         \* steps of a task, recovery steps included
MaxFaults == 1        \* failed executions and judge rejections injected
MaxApprovals == 1     \* approve commands issued
MaxEngineSteps == 2   \* steps of a task handed to the engine queries

----------------------------------------------------------------------------
(* tasks/models.py *)

TaskStates == {"pending", "running", "blocked", "completed", "failed", "cancelled"}
StepStates == {"pending", "running", "blocked", "completed", "failed", "skipped"}
TerminalTaskStates == {"completed", "failed", "cancelled"}

DefaultMaxRetries == 3

\* Identifiers: the id of the k-th step a planner mints, and one id that names
\* no step.
StepIds == <<"s1", "s2", "s3", "s4", "s5", "s6">>
GhostId == "zz"

\* TaskStep(id=..., skill_name=..., skill_config=..., dependencies=...)
TaskStep(id, skill, approved, deps) ==
    [id |-> id, skill_name |-> skill, approved |-> approved,
     state |-> "pending", output |-> "none", error |-> "none",
     retry_count |-> 0, max_retries |-> DefaultMaxRetries,
     dependencies |-> deps]

\* Task(goal=..., steps=...)
Task(steps) == [state |-> "pending", steps |-> steps]

\* Task.get_step: the first step with that id, 0 for None
get_step(t, step_id) ==
    IF \E i \in 1..Len(t.steps) : t.steps[i].id = step_id
    THEN CHOOSE i \in 1..Len(t.steps) :
            /\ t.steps[i].id = step_id
            /\ \A j \in 1..(i-1) : t.steps[j].id # step_id
    ELSE 0

----------------------------------------------------------------------------
(* tasks/engine.py *)

\* the loop of get_runnable_steps over task.steps[1..n]
RECURSIVE runnable_upto(_, _)
runnable_upto(t, n) ==
    IF n = 0 THEN <<>>
    ELSE LET step == t.steps[n]
             completed_ids == {t.steps[i].id : i \in {j \in 1..Len(t.steps) :
                                   t.steps[j].state = "completed"}}
             rest == runnable_upto(t, n - 1)
         IN  IF step.state \in {"pending", "failed"}
             THEN IF step.state = "failed" /\ step.retry_count >= step.max_retries
                  THEN rest
                  ELSE IF \A k \in 1..Len(step.dependencies) :
                              step.dependencies[k] \in completed_ids
                       THEN Append(rest, n)
                       ELSE rest
             ELSE rest

\* Variants of get_runnable_steps with one slip each, used to show that the
\* properties below depend on the code: (1) the dependency test looks at all
\* step ids instead of the completed ones, (2) the retry test is > instead
\* of >=, (3) the dependency test is any() instead of all()
RECURSIVE runnable_slip(_, _, _)
runnable_slip(t, n, slip) ==
    IF n = 0 THEN <<>>
    ELSE LET step == t.steps[n]
             completed_ids == {t.steps[i].id : i \in {j \in 1..Len(t.steps) :
                                   slip = 1 \/ t.steps[j].state = "completed"}}
             rest == runnable_slip(t, n - 1, slip)
             exhausted == IF slip = 2 THEN step.retry_count > step.max_retries
                          ELSE step.retry_count >= step.max_retries
             deps_ok == IF slip = 3
                        THEN \E k \in 1..Len(step.dependencies) :
                                step.dependencies[k] \in completed_ids
                        ELSE \A k \in 1..Len(step.dependencies) :
                                step.dependencies[k] \in completed_ids
         IN  IF step.state \in {"pending", "failed"}
             THEN IF step.state = "failed" /\ exhausted
                  THEN rest
                  ELSE IF deps_ok THEN Append(rest, n) ELSE rest
             ELSE rest

runnable_any_id(t) == runnable_slip(t, Len(t.steps), 1)
runnable_retry_off_by_one(t) == runnable_slip(t, Len(t.steps), 2)
runnable_any_dep(t) == runnable_slip(t, Len(t.steps), 3)

get_runnable_steps(t) == runnable_upto(t, Len(t.steps))

\* update_step_state that leaves retry_count alone
update_step_state_uncounted(t, step_id, state, output, error) ==
    LET i == get_step(t, step_id) IN
    IF i = 0 THEN t
    ELSE [t EXCEPT !.steps[i] =
            [@ EXCEPT !.state = state,
                      !.output = IF output \notin {"none", ""} THEN output ELSE @,
                      !.error = IF error \notin {"none", ""} THEN error ELSE @]]

\* update_step_state without its trailing save_task (the caller's action
\* writes the store)
update_step_state(t, step_id, state, output, error) ==
    LET i == get_step(t, step_id) IN
    IF i = 0 THEN t
    ELSE [t EXCEPT !.steps[i] =
            [@ EXCEPT !.state = state,
                      !.output = IF output \notin {"none", ""} THEN output ELSE @,
                      !.error = IF error \notin {"none", ""} THEN error ELSE @,
                      !.retry_count = IF state = "failed" THEN @ + 1 ELSE @]]

\* check_task_completion with the slip "retry_count > max_retries"
completion_retry_off_by_one(t) ==
    IF Len(t.steps) = 0 THEN [ret |-> FALSE, task |-> t]
    ELSE IF \A i \in 1..Len(t.steps) : t.steps[i].state = "completed"
    THEN [ret |-> TRUE, task |-> [t EXCEPT !.state = "completed"]]
    ELSE IF \E i \in 1..Len(t.steps) :
                /\ t.steps[i].state = "failed"
                /\ t.steps[i].retry_count > t.steps[i].max_retries
    THEN [ret |-> TRUE, task |-> [t EXCEPT !.state = "failed"]]
    ELSE [ret |-> FALSE, task |-> t]

\* check_task_completion: the returned flag and the task it leaves
check_task_completion(t) ==
    IF Len(t.steps) = 0 THEN [ret |-> FALSE, task |-> t]
    ELSE IF \A i \in 1..Len(t.steps) : t.steps[i].state = "completed"
    THEN [ret |-> TRUE, task |-> [t EXCEPT !.state = "completed"]]
    ELSE IF \E i \in 1..Len(t.steps) :
                /\ t.steps[i].state = "failed"
                /\ t.steps[i].retry_count >= t.steps[i].max_retries
    THEN [ret |-> TRUE, task |-> [t EXCEPT !.state = "failed"]]
    ELSE [ret |-> FALSE, task |-> t]

\* add_step without its trailing save_task
add_step(t, step) == [t EXCEPT !.steps = Append(@, step)]

----------------------------------------------------------------------------
(* tasks/engine.py, tasks/models.py: the task's JSON file *)

\* JSON values: null, a string, a number, true / false
json_null == <<"null">>
json_str(x) == <<"str", x>>
json_num(n) == <<"num", n>>
json_bool(b) == <<"bool", b>>

\* an Optional field: None is written as null
json_opt(v) == IF v = "none" THEN json_null ELSE json_str(v)
from_json_opt(j) == IF j = json_null THEN "none" ELSE j[2]

\* TaskStep.model_dump_json: the fields in declaration order; skill_config
\* is an object that holds the key "approved" if the flag was set (the
\* timestamps are left out of the model)
step_to_json(step) ==
    [id |-> json_str(step.id),
     skill_name |-> json_str(step.skill_name),
     skill_config |-> IF step.approved THEN {<<"approved", json_bool(TRUE)>>}
                      ELSE {},
     state |-> json_str(step.state),
     output |-> json_opt(step.output),
     error |-> json_opt(step.error),
     retry_count |-> json_num(step.retry_count),
     max_retries |-> json_num(step.max_retries),
     dependencies |-> [k \in 1..Len(step.dependencies) |->
                          json_str(step.dependencies[k])]]

\* TaskStep(**data) that takes the counters' defaults for what it reads
step_from_json_defaults(j) ==
    [id |-> j.id[2],
     skill_name |-> j.skill_name[2],
     approved |-> <<"approved", json_bool(TRUE)>> \in j.skill_config,
     state |-> j.state[2],
     output |-> from_json_opt(j.output),
     error |-> from_json_opt(j.error),
     retry_count |-> 0,
     max_retries |-> DefaultMaxRetries,
     dependencies |-> [k \in 1..Len(j.dependencies) |-> j.dependencies[k][2]]]

\* TaskStep(**data): pydantic validates each field of the parsed object
step_from_json(j) ==
    [id |-> j.id[2],
     skill_name |-> j.skill_name[2],
     approved |-> <<"approved", json_bool(TRUE)>> \in j.skill_config,
     state |-> j.state[2],
     output |-> from_json_opt(j.output),
     error |-> from_json_opt(j.error),
     retry_count |-> j.retry_count[2],
     max_retries |-> j.max_retries[2],
     dependencies |-> [k \in 1..Len(j.dependencies) |-> j.dependencies[k][2]]]

\* Task.model_dump_json (artifacts, context and the timestamps are left out
\* of the model)
task_to_json(t) ==
    [id |-> json_str(t.id),
     goal |-> json_str(t.goal),
     steps |-> [i \in 1..Len(t.steps) |-> step_to_json(t.steps[i])],
     state |-> json_str(t.state)]

\* Task(**data)
task_from_json(j) ==
    [id |-> j.id[2],
     goal |-> j.goal[2],
     steps |-> [i \in 1..Len(j.steps) |-> step_from_json(j.steps[i])],
     state |-> j.state[2]]

\* the file: absent, empty (opened for writing, nothing written), holding
\* the first part of a document, or holding a whole document
NoFile == [kind |-> "absent", doc |-> <<>>]
EmptyFile == [kind |-> "empty", doc |-> <<>>]
PartFile == [kind |-> "partial", doc |-> <<>>]
JsonFile(j) == [kind |-> "json", doc |-> <<j>>]

\* what load_task gives its caller: nothing yet, None, a Task, or the
\* JSONDecodeError of json.load
NotLoaded == [status |-> "unset", task |-> <<>>]
load_task(f) ==
    IF f.kind = "absent" THEN [status |-> "None", task |-> <<>>]
    ELSE IF f.kind = "json"
    THEN [status |-> "Task", task |-> <<task_from_json(f.doc[1])>>]
    ELSE [status |-> "JSONDecodeError", task |-> <<>>]

----------------------------------------------------------------------------
(* permissions/manager.py, skills *)

\* PermissionManager.policy as Agent.__init__ builds it; a class that is not
\* listed has no entry
PolicyClasses == {"file_read", "file_write", "shell_exec", "net_access",
                  "code_scaffold", "desktop_control", "desktop_view",
                  "vision_analyze"}
policy(perm) ==
    IF perm \in {"file_write", "shell_exec"} THEN "ask" ELSE "allow"

PermissionLevel(perm) == IF perm \in PolicyClasses THEN policy(perm) ELSE "deny"

check_permission(perm, step_approved) ==
    LET level == PermissionLevel(perm) IN
    IF level = "allow" THEN TRUE
    ELSE IF level = "deny" THEN FALSE
    ELSE step_approved

requires_approval(perm) == PermissionLevel(perm) = "ask"

\* The registry: the skills the model draws steps from, and the permission
\* classes each declares.  "teleport" is a name no skill registers.
RegisteredSkills == {"file_read", "file_write", "browser_control"}
SkillNames == RegisteredSkills \cup {"teleport"}
permissions_required(skill) ==
    IF skill = "file_read" THEN {"file_read"}
    ELSE IF skill = "file_write" THEN {"file_write"}
    ELSE IF skill = "browser_control" THEN {"browser_control"}
    ELSE {}

\* run_loop 2b: the capabilities the judge is consulted for
HighRiskSkills == {"shell_command", "file_write", "file_edit", "skill_create"}

\* run_loop 2: what the operator may type at the prompt ("EOF": input raises
\* EOFError), ans.lower(), and the test that lets the step through
Answers == {"y", "Y", "n", "EOF"}
lower(a) == IF a = "Y" THEN "y" ELSE a

\* the test with EOFError taken for consent
affirmative_on_eof(a) == lower(a) # "n"

affirmative(a) == a # "EOF" /\ lower(a) = "y"

\* core/guardrail.py: the judge answers APPROVE or REJECT with a reason, or
\* the call raises
JudgeResponses == {"APPROVE", "REJECT", "raise"}

\* GuardrailAgent.check on the judge's text
guardrail_check(content) == content = "APPROVE"

\* run_loop 2b with the judge's outage taken for a rejection
guardrail_fail_closed(response) ==
    IF response = "raise" THEN FALSE ELSE guardrail_check(response)

\* run_loop 2b: ok after the try/except around guardrail.check
guardrail_ok(response) ==
    IF response = "raise" THEN TRUE ELSE guardrail_check(response)

\* run_loop 3: a skill result.  Each of the fields the run loop looks at is
\* "absent" (the result has no such attribute) or holds a value, written as
\* Python writes it.
SkillOutputs ==
    [success : {"absent", "None", "True", "False"},
     exit_code : {"absent", "None", "0", "1"},
     error : {"absent", "None", "", "timeout", "invalid argument"},
     stderr : {"absent", "", "invalid argument"}]

\* getattr(output, name, default), and the truth value of the field
getattr(o, name, default) == IF o[name] = "absent" THEN default ELSE o[name]
truthy(v) == v \notin {"None", ""}

\* the failure detection with "success is not True" for "success is False"
failed_unless_success(o) ==
    \/ getattr(o, "success", "None") # "True"
    \/ getattr(o, "exit_code", "0") \notin {"0", "None"}
    \/ truthy(getattr(o, "error", "None"))
    \/ /\ truthy(getattr(o, "stderr", "None"))
       /\ getattr(o, "exit_code", "0") \notin {"0", "None"}

\* "Unified failure detection across skills": the flag `failed`
failed(o) ==
    \/ getattr(o, "success", "None") = "False"
    \/ getattr(o, "exit_code", "0") \notin {"0", "None"}
    \/ truthy(getattr(o, "error", "None"))
    \/ /\ truthy(getattr(o, "stderr", "None"))
       /\ getattr(o, "exit_code", "0") \notin {"0", "None"}

\* _handle_step_failure: error texts and their classification
ErrorTexts == {"timeout", "invalid argument"}

\* str(err or output), err = error or stderr: the error text, else the
\* error stream, else the printed result (any text)
failure_texts(o) ==
    IF truthy(getattr(o, "error", "None")) THEN {o.error}
    ELSE IF truthy(getattr(o, "stderr", "None")) THEN {o.stderr}
    ELSE ErrorTexts
is_transient(error) == error = "timeout"
MAX_RETRIES == 2

----------------------------------------------------------------------------
(* core/planner.py: what the planner may hand back *)

\* what a planner writes into a step: a capability name and whether the
\* configuration carries approved = true (the flag is a no-op for the
\* capabilities that are neither asked about nor denied)
StepKinds ==
    {<<"file_read", FALSE>>, <<"file_write", FALSE>>, <<"file_write", TRUE>>,
     <<"browser_control", FALSE>>, <<"browser_control", TRUE>>,
     <<"teleport", FALSE>>}

\* dependency lists of the k-th step of a plan whose first step is the
\* base+1-th step of the task: none, or the step before it
PlanDeps(base, k) ==
    {<<>>} \cup (IF k > 1 THEN {<<StepIds[base + k - 1]>>} ELSE {})

\* Planner.plan: 0..MaxPlan steps (an unparsable answer gives the empty plan)
RECURSIVE Plans(_)
Plans(n) ==
    IF n = 0 THEN {<<>>}
    ELSE {Append(p, TaskStep(StepIds[n], kind[1], kind[2], d)) :
            p \in Plans(n - 1), kind \in StepKinds, d \in PlanDeps(0, n)}

\* Planner.replan: a non-empty list of steps with newly minted ids, each
\* depending on nothing or on the recovery step before it
RecoverySkills == {"file_read", "file_write"}
RECURSIVE RecoveryOfLen(_, _)
RecoveryOfLen(base, n) ==
    IF n = 0 THEN {<<>>}
    ELSE {Append(p, TaskStep(StepIds[base + n], sk, FALSE, d)) :
            p \in RecoveryOfLen(base, n - 1), sk \in RecoverySkills,
            d \in PlanDeps(base, n)}

RecoveryPlans(t) ==
    UNION {RecoveryOfLen(Len(t.steps), n) : n \in 1..(MaxSteps - Len(t.steps))}

----------------------------------------------------------------------------
(* core/agent.py: Agent.run_loop *)

TypeOK ==
    /\ task.state \in TaskStates
    /\ store.state \in TaskStates
    /\ pc \in {"idle", "loop", "sleep", "gate", "exec", "failure", "done",
              "engine", "queried", "checked", "store", "writing"}
    /\ cur \in 0..(MaxSteps + 1)
    /\ attempt \in 0..MAX_RETRIES
    /\ result \in BOOLEAN
    /\ faults \in 0..(MaxFaults + 1)
    /\ approvals \in 0..MaxApprovals
    /\ ans \in Answers \cup {"none"}
    /\ verdict \in JudgeResponses \cup {"none"}
    /\ calls \in 0..(MAX_RETRIES + 1)
    /\ delay \in 0..(2 ^ MAX_RETRIES)

\* ids of the tasks the uplink creates (Task.id is a fresh uuid4 per task)
RunIds == {"t1", "t2"}

\* Telegram users (update.effective_user.id, job.user_id)
Users == {"u1", "u2"}

\* a created task whose loop has not been entered
NoLoop == [kind |-> "none", user |-> "none", pc |-> "off", i |-> 0, n |-> 0,
           replans_done |-> 0]

\* self.active_tasks: dict = {}
NoActiveTasks == [u \in {} |-> "none"]

\* the uplink has handled no update and run no job
UplinkIdle ==
    /\ active_tasks = NoActiveTasks
    /\ loops = [r \in RunIds |-> NoLoop]
    /\ stopped = {}

\* no uplink is started: the agent is run from the command line
UplinkOff ==
    /\ active_tasks = <<>>
    /\ loops = <<>>
    /\ stopped = {}

\* no click step is at the executor
ChainOff ==
    /\ ctask = <<>>
    /\ cstep = 0

\* Agent.create_task has saved a plan; run_loop has not been called.  The
\* environment may inject up to f faults.
InitRunLoop(f) ==
    /\ \E n \in 0..MaxPlan : \E p \in Plans(n) : store = Task(p)
    /\ task = store
    /\ pc = "idle"
    /\ batch = <<>>
    /\ cur = 0
    /\ err = "none"
    /\ attempt = 0
    /\ result = FALSE
    /\ safe_mode \in BOOLEAN
    /\ interactive \in BOOLEAN
    /\ faults = f
    /\ atask = <<>>
    /\ approvals = MaxApprovals
    /\ ans = "none"
    /\ verdict = "none"
    /\ calls = 0
    /\ delay = 0
    /\ skill_output = <<>>
    /\ file = NoFile
    /\ loaded = NotLoaded

\* the same with an idle uplink and no step at the executor's chaining
InitWith(f) ==
    /\ InitRunLoop(f)
    /\ UplinkOff
    /\ ChainOff

Init == InitWith(MaxFaults)

\* the step object the for-loop holds
CurIdx == batch[cur]
CurStep == task.steps[CurIdx]

\* run_loop(task_id): load the task, set it running, save it
RunLoopStart ==
    /\ pc \in {"idle", "done"}
    /\ task' = [store EXCEPT !.state = "running"]
    /\ store' = task'
    /\ pc' = "loop"
    /\ batch' = <<>>
    /\ cur' = 0
    /\ UNCHANGED <<err, attempt, result, safe_mode, interactive, faults,
                   atask, approvals, locals, skill_output, disk, uplink, chain>>

\* The while-condition (task.state not terminal) guards each iteration; it is
\* never false at the loop head, since the state is set running before the
\* loop and the only assignment of a terminal state is followed by break.

\* a batch of runnable steps is taken
LoopBatch ==
    /\ pc = "loop"
    /\ task.state \notin TerminalTaskStates
    /\ get_runnable_steps(task) # <<>>
    /\ batch' = get_runnable_steps(task)
    /\ cur' = 1
    /\ pc' = "gate"
    /\ UNCHANGED <<task, store, err, attempt, result, safe_mode, interactive,
                   faults, atask, approvals, locals, skill_output, disk, uplink, chain>>

\* no runnable step: the loop gives the task up as failed and breaks
LoopFinish_gives_up ==
    /\ pc = "loop"
    /\ task.state \notin TerminalTaskStates
    /\ get_runnable_steps(task) = <<>>
    /\ task' = IF check_task_completion(task).ret
               THEN check_task_completion(task).task
               ELSE [task EXCEPT !.state = "failed"]
    /\ store' = task'
    /\ result' = TRUE
    /\ batch' = <<>>
    /\ pc' = "done"
    /\ UNCHANGED <<cur, err, attempt, safe_mode, interactive, faults, atask,
                   approvals, locals, skill_output, disk, uplink, chain>>

\* no runnable step and check_task_completion is true: state saved, break
LoopFinish ==
    /\ pc = "loop"
    /\ task.state \notin TerminalTaskStates
    /\ get_runnable_steps(task) = <<>>
    /\ check_task_completion(task).ret
    /\ task' = check_task_completion(task).task
    /\ store' = task'
    /\ result' = TRUE
    /\ batch' = <<>>
    /\ pc' = "done"
    /\ UNCHANGED <<cur, err, attempt, safe_mode, interactive, faults, atask,
                   approvals, locals, skill_output, disk, uplink, chain>>

\* no runnable step and check_task_completion is false: sleep(2), continue
LoopWait ==
    /\ pc = "loop"
    /\ task.state \notin TerminalTaskStates
    /\ get_runnable_steps(task) = <<>>
    /\ ~check_task_completion(task).ret
    /\ task' = check_task_completion(task).task
    /\ result' = FALSE
    /\ batch' = <<>>
    /\ pc' = "sleep"
    /\ UNCHANGED <<store, cur, err, attempt, safe_mode, interactive, faults,
                   atask, approvals, locals, skill_output, disk, uplink, chain>>

Wake ==
    /\ pc = "sleep"
    /\ pc' = "loop"
    /\ UNCHANGED <<task, store, batch, cur, err, attempt, result, safe_mode,
                   interactive, faults, atask, approvals, locals, skill_output,
                   disk, uplink, chain>>

\* the for-loop is exhausted: sleep(0.5), next iteration
BatchEnd ==
    /\ pc = "gate"
    /\ cur > Len(batch)
    /\ pc' = "loop"
    /\ ans' = "none"
    /\ verdict' = "none"
    /\ calls' = 0
    /\ delay' = 0
    /\ UNCHANGED <<task, store, batch, cur, err, attempt, result, safe_mode,
                   interactive, faults, atask, approvals, skill_output, disk, uplink, chain>>

\* 1. skill validation: get_skill raises ValueError
GateSkillNotFound ==
    /\ pc = "gate"
    /\ cur <= Len(batch)
    /\ CurStep.skill_name \notin RegisteredSkills
    /\ task' = update_step_state(task, CurStep.id, "failed", "none", "Skill not found")
    /\ store' = task'
    /\ cur' = cur + 1
    /\ ans' = "none"
    /\ verdict' = "none"
    /\ calls' = 0
    /\ delay' = 0
    /\ UNCHANGED <<pc, batch, err, attempt, result, safe_mode, interactive,
                   faults, atask, approvals, skill_output, disk, uplink, chain>>

\* 2. the step is asked about: no approved flag in memory, some required
\* class needs approval, safe mode on
AskGated(step) ==
    /\ ~step.approved
    /\ \E perm \in permissions_required(step.skill_name) : requires_approval(perm)
    /\ safe_mode

\* the gate deciding on the step object it holds, without the reload
StoredApproved_stale(step) == step.approved

\* the approved flag of the step in the task reloaded from the store
StoredApproved(step) ==
    LET i == get_step(store, step.id) IN
    IF i = 0 THEN FALSE ELSE store.steps[i].approved

\* the step is asked about at the prompt
Prompted(step) == AskGated(step) /\ interactive

\* interactive prompt answered anything but "y" (or EOF): allowed = False,
\* sleep(2), next step of the batch
GateRefused ==
    /\ pc = "gate"
    /\ cur <= Len(batch)
    /\ CurStep.skill_name \in RegisteredSkills
    /\ Prompted(CurStep)
    /\ \E a \in Answers : ~affirmative(a) /\ ans' = a
    /\ verdict' = "none"
    /\ calls' = 0
    /\ delay' = 0
    /\ cur' = cur + 1
    /\ UNCHANGED <<task, store, pc, batch, err, attempt, result, safe_mode,
                   interactive, faults, atask, approvals, skill_output, disk, uplink, chain>>

\* daemon mode, no approval in the store: the step is set blocked
GateBlocked ==
    /\ pc = "gate"
    /\ cur <= Len(batch)
    /\ CurStep.skill_name \in RegisteredSkills
    /\ AskGated(CurStep)
    /\ ~interactive
    /\ ~StoredApproved(CurStep)
    /\ task' = update_step_state(task, CurStep.id, "blocked", "none", "Waiting for approval")
    /\ store' = task'
    /\ cur' = cur + 1
    /\ ans' = "none"
    /\ verdict' = "none"
    /\ calls' = 0
    /\ delay' = 0
    /\ UNCHANGED <<pc, batch, err, attempt, result, safe_mode, interactive,
                   faults, atask, approvals, skill_output, disk, uplink, chain>>

\* the permission check lets the step through: not asked about, prompt
\* answered "y", or approved in the store
GatePassed(step) ==
    /\ step.skill_name \in RegisteredSkills
    /\ AskGated(step) /\ ~interactive => StoredApproved(step)

\* the answers with which the permission check lets the step through
\* ("none": no prompt is shown)
PassingAnswers(step) ==
    IF Prompted(step) THEN {a \in Answers : affirmative(a)} ELSE {"none"}

\* the judge's responses for the step ("none": the judge is not consulted)
Consulted(step) ==
    IF step.skill_name \in HighRiskSkills THEN JudgeResponses ELSE {"none"}

\* the in-memory task after the permission check: an approval found in the
\* store is copied into the step's configuration
AfterPermission ==
    IF AskGated(CurStep) /\ ~interactive
    THEN [task EXCEPT !.steps[CurIdx].approved = TRUE]
    ELSE task

\* 2b. the judge rejects a high-risk step
GateGuardrailReject ==
    /\ pc = "gate"
    /\ cur <= Len(batch)
    /\ GatePassed(CurStep)
    /\ \E a \in PassingAnswers(CurStep) : ans' = a
    /\ \E r \in Consulted(CurStep) :
          r # "none" /\ ~guardrail_ok(r) /\ verdict' = r
    /\ faults > 0
    /\ faults' = faults - 1
    /\ task' = update_step_state(AfterPermission, CurStep.id, "failed", "none",
                                 "Guardrail REJECT")
    /\ store' = task'
    /\ calls' = 0
    /\ delay' = 0
    /\ cur' = cur + 1
    /\ UNCHANGED <<pc, batch, err, attempt, result, safe_mode, interactive,
                   atask, approvals, skill_output, disk, uplink, chain>>

\* 3. the step is admitted (the judge approves, is unavailable, or is not
\* consulted) and set running
GateAdmit ==
    /\ pc = "gate"
    /\ cur <= Len(batch)
    /\ GatePassed(CurStep)
    /\ \E a \in PassingAnswers(CurStep) : ans' = a
    /\ \E r \in Consulted(CurStep) :
          (r = "none" \/ guardrail_ok(r)) /\ verdict' = r
    /\ task' = update_step_state(AfterPermission, CurStep.id, "running", "none", "none")
    /\ store' = task'
    /\ calls' = 0
    /\ delay' = 0
    /\ pc' = "exec"
    /\ UNCHANGED <<batch, cur, err, attempt, result, safe_mode, interactive,
                   faults, atask, approvals, skill_output, disk, uplink, chain>>

\* the results the run loop takes for a success, and the texts the failing
\* results give
OkOutputs == {o \in SkillOutputs : ~failed(o)}
FailureTexts == UNION {failure_texts(o) : o \in SkillOutputs \ OkOutputs}

\* a successful execution that is not recorded on the step
ExecOk_unrecorded ==
    /\ pc = "exec"
    /\ OkOutputs # {}
    /\ calls' = calls + 1
    /\ ans' = "none"
    /\ verdict' = "none"
    /\ cur' = cur + 1
    /\ pc' = "gate"
    /\ UNCHANGED <<task, store, batch, err, attempt, result, safe_mode,
                   interactive, faults, atask, approvals, delay, skill_output,
                   disk, uplink, chain>>

\* a successful execution recorded on the in-memory step and not saved
ExecOk_unsaved ==
    /\ pc = "exec"
    /\ OkOutputs # {}
    /\ task' = update_step_state(task, CurStep.id, "completed", "out", "none")
    /\ calls' = calls + 1
    /\ ans' = "none"
    /\ verdict' = "none"
    /\ cur' = cur + 1
    /\ pc' = "gate"
    /\ UNCHANGED <<store, batch, err, attempt, result, safe_mode, interactive,
                   faults, atask, approvals, delay, skill_output, disk, uplink, chain>>

\* skill.execute returns a result that is no failure
ExecOk ==
    /\ pc = "exec"
    /\ OkOutputs # {}
    /\ task' = update_step_state(task, CurStep.id, "completed", "out", "none")
    /\ store' = task'
    /\ calls' = calls + 1
    /\ ans' = "none"
    /\ verdict' = "none"
    /\ cur' = cur + 1
    /\ pc' = "gate"
    /\ UNCHANGED <<batch, err, attempt, result, safe_mode, interactive,
                   faults, atask, approvals, delay, skill_output, disk, uplink, chain>>

\* validation or execute raises and the handler is not entered
ExecFail_uncaught ==
    /\ pc = "exec"
    /\ faults > 0
    /\ faults' = faults - 1
    /\ \E e \in ErrorTexts \cup FailureTexts : err' = e
    /\ attempt' = 0
    /\ calls' = calls + 1
    /\ pc' = "raised"
    /\ UNCHANGED <<task, store, batch, cur, result, safe_mode, interactive,
                   atask, approvals, ans, verdict, delay, skill_output, disk, uplink, chain>>

\* the result is a failure, or validation or execute raised (str(e) is any
\* text): _handle_step_failure(task, step, error) is entered
ExecFail ==
    /\ pc = "exec"
    /\ faults > 0
    /\ faults' = faults - 1
    /\ \E e \in ErrorTexts \cup FailureTexts : err' = e
    /\ attempt' = 0
    /\ calls' = calls + 1
    /\ pc' = "failure"
    /\ UNCHANGED <<task, store, batch, cur, result, safe_mode, interactive,
                   atask, approvals, ans, verdict, delay, skill_output, disk, uplink, chain>>

\* validation or execute raises an exception that carries no message:
\* str(e) is the empty text
ExecRaise ==
    /\ pc = "exec"
    /\ faults > 0
    /\ faults' = faults - 1
    /\ err' = ""
    /\ attempt' = 0
    /\ calls' = calls + 1
    /\ pc' = "failure"
    /\ UNCHANGED <<task, store, batch, cur, result, safe_mode, interactive,
                   atask, approvals, ans, verdict, delay, skill_output, disk, uplink, chain>>

\* skill.execute returns the result o, which the run loop classifies and
\* routes (the same lines as ExecOk and ExecFail, the result kept)
ExecClassify ==
    /\ pc = "exec"
    /\ \E o \in SkillOutputs :
          /\ skill_output' = <<o>>
          /\ result' = failed(o)
          /\ IF failed(o)
             THEN /\ \E e \in failure_texts(o) : err' = e
                  /\ pc' = "failure"
                  /\ UNCHANGED <<task, store, cur, disk, uplink, chain>>
             ELSE /\ task' = update_step_state(task, CurStep.id, "completed",
                                               "out", "none")
                  /\ store' = task'
                  /\ cur' = cur + 1
                  /\ pc' = "gate"
                  /\ err' = err
    /\ attempt' = 0
    /\ calls' = calls + 1
    /\ UNCHANGED <<batch, safe_mode, interactive, faults, atask, approvals,
                   ans, verdict, delay, disk, uplink, chain>>

----------------------------------------------------------------------------
(* core/agent.py: Agent._handle_step_failure *)

\* the transient branch with the bound tested by <=
RetryBranch_one_more == is_transient(err) /\ attempt <= MAX_RETRIES

\* the transient branch is taken
RetryBranch == is_transient(err) /\ attempt < MAX_RETRIES

\* asyncio.sleep(2 ** retry_count)
backoff(n) == 2 ^ n

\* transient retry whose result has no error: the step is set completed
RetryOk ==
    /\ pc = "failure"
    /\ RetryBranch
    /\ task' = update_step_state(task, CurStep.id, "completed", "out", "none")
    /\ store' = task'
    /\ err' = "none"
    /\ attempt' = 0
    /\ calls' = calls + 1
    /\ delay' = backoff(attempt)
    /\ ans' = "none"
    /\ verdict' = "none"
    /\ cur' = cur + 1
    /\ pc' = "gate"
    /\ UNCHANGED <<batch, result, safe_mode, interactive, faults, atask,
                   approvals, skill_output, disk, uplink, chain>>

\* a failed retry attempt that records a failed transition before the
\* next attempt
RetryFail_counted ==
    /\ pc = "failure"
    /\ RetryBranch
    /\ \E e \in ErrorTexts : err' = e
    /\ task' = update_step_state(task, CurStep.id, "failed", "none", err)
    /\ store' = task'
    /\ attempt' = attempt + 1
    /\ calls' = calls + 1
    /\ delay' = backoff(attempt)
    /\ UNCHANGED <<pc, batch, cur, result, safe_mode, interactive, faults,
                   atask, approvals, ans, verdict, skill_output, disk, uplink, chain>>

\* transient retry that fails again (result with an error, or an
\* exception): the handler recurses with retry_count + 1
RetryFail ==
    /\ pc = "failure"
    /\ RetryBranch
    /\ \E e \in ErrorTexts : err' = e
    /\ attempt' = attempt + 1
    /\ calls' = calls + 1
    /\ delay' = backoff(attempt)
    /\ UNCHANGED <<task, store, pc, batch, cur, result, safe_mode,
                   interactive, faults, atask, approvals, ans, verdict,
                   skill_output, disk, uplink, chain>>

\* "Mark the step failed once"
mark_failed_once(t, step, error) ==
    IF step.state # "failed"
    THEN update_step_state(t, step.id, "failed", "none", error)
    ELSE t

\* "Skip remaining PENDING steps (plan changed)": the loop from step i on
RECURSIVE skip_pending_from(_, _)
skip_pending_from(t, i) ==
    IF i > Len(t.steps) THEN t
    ELSE skip_pending_from(
            IF t.steps[i].state = "pending"
            THEN update_step_state(t, t.steps[i].id, "skipped", "none", "Plan changed")
            ELSE t,
            i + 1)

\* skip_pending with the loop left out
skip_pending_forgotten(t) == t

skip_pending(t) == skip_pending_from(t, 1)

\* "Add recovery steps": add_step for each step of the plan, in order
RECURSIVE add_steps(_, _)
add_steps(t, plan) ==
    IF plan = <<>> THEN t
    ELSE add_steps(add_step(t, Head(plan)), Tail(plan))

\* the branch taken when the planner hands back recovery steps
apply_recovery(t, step, plan) ==
    LET replaced == update_step_state(t, step.id, "skipped", "none",
                                      "Replaced by recovery")
        added == add_steps(skip_pending(replaced), plan)
    IN  [added EXCEPT !.state = "running"]

\* the planner hands back nothing and the step is set skipped
SelfCorrectNone_skips ==
    /\ pc = "failure"
    /\ ~RetryBranch
    /\ task' = update_step_state(mark_failed_once(task, CurStep, err),
                                 CurStep.id, "skipped", "none", err)
    /\ store' = task'
    /\ err' = "none"
    /\ attempt' = 0
    /\ ans' = "none"
    /\ verdict' = "none"
    /\ calls' = 0
    /\ delay' = 0
    /\ cur' = cur + 1
    /\ pc' = "gate"
    /\ UNCHANGED <<batch, result, safe_mode, interactive, faults, atask,
                   approvals, skill_output, disk, uplink, chain>>

\* the planner hands back nothing, or replanning raises: the step is set
\* failed (again)
SelfCorrectNone ==
    /\ pc = "failure"
    /\ ~RetryBranch
    /\ task' = update_step_state(mark_failed_once(task, CurStep, err),
                                 CurStep.id, "failed", "none", err)
    /\ store' = task'
    /\ err' = "none"
    /\ attempt' = 0
    /\ ans' = "none"
    /\ verdict' = "none"
    /\ calls' = 0
    /\ delay' = 0
    /\ cur' = cur + 1
    /\ pc' = "gate"
    /\ UNCHANGED <<batch, result, safe_mode, interactive, faults, atask,
                   approvals, skill_output, disk, uplink, chain>>

\* the planner hands back recovery steps
SelfCorrectRecover ==
    /\ pc = "failure"
    /\ ~RetryBranch
    /\ \E plan \in RecoveryPlans(task) :
          task' = apply_recovery(mark_failed_once(task, CurStep, err), CurStep, plan)
    /\ store' = task'
    /\ err' = "none"
    /\ attempt' = 0
    /\ ans' = "none"
    /\ verdict' = "none"
    /\ calls' = 0
    /\ delay' = 0
    /\ cur' = cur + 1
    /\ pc' = "gate"
    /\ UNCHANGED <<batch, result, safe_mode, interactive, faults, atask,
                   approvals, skill_output, disk, uplink, chain>>

----------------------------------------------------------------------------
(* cli/main.py: approve, run by another process *)

\* engine.load_task(tid)
ApproveLoad ==
    /\ approvals > 0
    /\ atask = <<>>
    /\ atask' = <<store>>
    /\ UNCHANGED <<task, store, pc, batch, cur, err, attempt, result,
                   safe_mode, interactive, faults, approvals, locals, skill_output,
                   disk, uplink, chain>>

\* the step ids an approve command may name
ApproveIds == {StepIds[k] : k \in 1..MaxSteps} \cup {GhostId}

\* task.get_step(step_id) finds no step: "Step not found.", return
ApproveNotFound ==
    /\ atask # <<>>
    /\ \E sid \in ApproveIds : get_step(atask[1], sid) = 0
    /\ atask' = <<>>
    /\ UNCHANGED <<task, store, pc, batch, cur, err, attempt, result,
                   safe_mode, interactive, faults, approvals, locals,
                   skill_output, disk, uplink, chain>>

\* approve that reads the task again and writes the flag into that record
ApproveSave_reread ==
    /\ atask # <<>>
    /\ \E sid \in ApproveIds :
          LET i == get_step(store, sid)
          IN  /\ get_step(atask[1], sid) # 0
              /\ i # 0
              /\ store' = [store EXCEPT !.steps[i].approved = TRUE]
    /\ atask' = <<>>
    /\ approvals' = approvals - 1
    /\ UNCHANGED <<task, pc, batch, cur, err, attempt, result, safe_mode,
                   interactive, faults, locals, skill_output, disk, uplink, chain>>

\* step.skill_config["approved"] = True; engine.save_task(task): the task
\* as it was loaded is written with the flag set
ApproveSave ==
    /\ atask # <<>>
    /\ \E sid \in ApproveIds :
          LET t == atask[1]
              i == get_step(t, sid)
          IN  /\ i # 0
              /\ store' = [t EXCEPT !.steps[i].approved = TRUE]
    /\ atask' = <<>>
    /\ approvals' = approvals - 1
    /\ UNCHANGED <<task, pc, batch, cur, err, attempt, result, safe_mode,
                   interactive, faults, locals, skill_output, disk, uplink, chain>>

----------------------------------------------------------------------------

RunLoop ==
    \/ LoopBatch \/ LoopFinish \/ LoopWait \/ Wake \/ BatchEnd
    \/ GateSkillNotFound \/ GateRefused \/ GateBlocked \/ GateGuardrailReject
    \/ GateAdmit \/ ExecOk \/ ExecFail
    \/ RetryOk \/ RetryFail \/ SelfCorrectNone \/ SelfCorrectRecover

Approve == ApproveLoad \/ ApproveSave \/ ApproveNotFound

Next == RunLoopStart \/ RunLoop

Spec == Init /\ [][Next]_vars

\* the run loop is one sequential coroutine: once called it keeps stepping
FairSpec == Spec /\ WF_vars(RunLoop)

\* The run loop in an environment that injects no fault: every execution
\* succeeds and the judge never rejects.  These are the steps of RunLoop
\* that are enabled when faults = 0.
FaultFreeLoop ==
    \/ LoopBatch \/ LoopFinish \/ LoopWait \/ Wake \/ BatchEnd
    \/ GateSkillNotFound \/ GateRefused \/ GateBlocked \/ GateAdmit \/ ExecOk

FaultFreeSpec ==
    InitWith(0) /\ [][RunLoopStart \/ FaultFreeLoop]_vars /\ WF_vars(FaultFreeLoop)

\* The run loop as a daemon in safe mode, with the approve command issued
\* by another process while it runs, in an environment that injects no
\* fault.  No step of the plan carries an approval of the planner's.
InitApprove ==
    /\ InitWith(0)
    /\ safe_mode
    /\ ~interactive
    /\ \A i \in 1..Len(store.steps) : ~store.steps[i].approved

ApproveLoop ==
    \/ LoopBatch \/ LoopFinish \/ LoopWait \/ Wake \/ BatchEnd
    \/ GateSkillNotFound \/ GateBlocked \/ GateAdmit \/ ExecOk

NextApprove == RunLoopStart \/ ApproveLoop \/ Approve

ApproveSpec == InitApprove /\ [][NextApprove]_vars /\ WF_vars(ApproveLoop)

\* The run loop with safe mode off on a plan of registered capabilities
\* whose permission classes the policy lists, in an environment that injects
\* one fault or more, up to MaxFaults + 1: no step is asked about, so every
\* step reaches the judge and the skill, and a step can fail often enough to
\* use its retries up.
InitHandler ==
    /\ \E f \in 1..(MaxFaults + 1) : InitWith(f)
    /\ ~safe_mode
    /\ ~interactive
    /\ \A i \in 1..Len(store.steps) :
          /\ store.steps[i].skill_name \in RegisteredSkills
          /\ permissions_required(store.steps[i].skill_name) \subseteq PolicyClasses
          /\ ~store.steps[i].approved

HandlerLoop ==
    \/ LoopBatch \/ LoopFinish \/ LoopWait \/ Wake \/ BatchEnd
    \/ GateGuardrailReject \/ GateAdmit \/ ExecOk \/ ExecFail
    \/ RetryOk \/ RetryFail \/ SelfCorrectNone \/ SelfCorrectRecover

NextHandler == RunLoopStart \/ HandlerLoop

HandlerSpec == InitHandler /\ [][NextHandler]_vars /\ WF_vars(HandlerLoop)

\* The same run loop in an environment where a raised exception may carry
\* no message.
NextRaise == RunLoopStart \/ HandlerLoop \/ ExecRaise

RaiseSpec == InitHandler /\ [][NextRaise]_vars

\* The classification of one skill result: a step has been admitted and its
\* skill returns
InitClassify ==
    /\ \E sk \in RegisteredSkills :
          task = [state |-> "running",
                  steps |-> <<[TaskStep(StepIds[1], sk, FALSE, <<>>)
                                 EXCEPT !.state = "running"]>>]
    /\ store = task
    /\ pc = "exec"
    /\ batch = <<1>>
    /\ cur = 1
    /\ err = "none"
    /\ attempt = 0
    /\ result = FALSE
    /\ safe_mode = FALSE
    /\ interactive = FALSE
    /\ faults = 0
    /\ atask = <<>>
    /\ approvals = 0
    /\ ans = "none"
    /\ verdict \in {"none", "APPROVE"}
    /\ calls = 0
    /\ delay = 0
    /\ skill_output = <<>>
    /\ file = NoFile
    /\ loaded = NotLoaded
    /\ UplinkOff
    /\ ChainOff

SpecClassify == InitClassify /\ [][ExecClassify]_vars

----------------------------------------------------------------------------
(* The engine queries on their own: get_runnable_steps and                 *)
(* check_task_completion applied to an arbitrary persisted task            *)

\* retry counters below, at and above the bound
EngineRetryCounts == (DefaultMaxRetries - 1)..(DefaultMaxRetries + 1)

\* dependency lists: none, one step, an id naming no step, two steps
EngineDepLists ==
    {<<>>, <<StepIds[1]>>, <<GhostId>>, <<StepIds[1], StepIds[2]>>}

RECURSIVE EngineSteps(_)
EngineSteps(n) ==
    IF n = 0 THEN {<<>>}
    ELSE {Append(p, [TaskStep(StepIds[n], "file_read", FALSE, d)
                        EXCEPT !.state = st, !.retry_count = rc]) :
            p \in EngineSteps(n - 1), st \in StepStates,
            rc \in EngineRetryCounts, d \in EngineDepLists}

InitEngine ==
    /\ \E n \in 0..MaxEngineSteps : \E p \in EngineSteps(n) :
          \E st \in {"pending", "running"} : task = [Task(p) EXCEPT !.state = st]
    /\ store = task
    /\ pc = "engine"
    /\ batch = <<>>
    /\ cur = 0
    /\ err = "none"
    /\ attempt = 0
    /\ result = FALSE
    /\ safe_mode = TRUE
    /\ interactive = FALSE
    /\ faults = 0
    /\ atask = <<>>
    /\ approvals = 0
    /\ ans = "none"
    /\ verdict = "none"
    /\ calls = 0
    /\ delay = 0
    /\ skill_output = <<>>
    /\ file = NoFile
    /\ loaded = NotLoaded
    /\ UplinkOff
    /\ ChainOff

\* runnable = engine.get_runnable_steps(task)
EngineRunnable ==
    /\ pc = "engine"
    /\ batch' = get_runnable_steps(task)
    /\ pc' = "queried"
    /\ UNCHANGED <<task, store, cur, err, attempt, result, safe_mode,
                   interactive, faults, atask, approvals, locals, skill_output,
                   disk, uplink, chain>>

\* done = engine.check_task_completion(task); it saves the task when it
\* sets the state
EngineCheck ==
    /\ pc = "engine"
    /\ result' = check_task_completion(task).ret
    /\ task' = check_task_completion(task).task
    /\ store' = IF check_task_completion(task).ret THEN task' ELSE store
    /\ pc' = "checked"
    /\ UNCHANGED <<batch, cur, err, attempt, safe_mode, interactive, faults,
                   atask, approvals, locals, skill_output, disk, uplink, chain>>

NextEngine == EngineRunnable \/ EngineCheck

SpecEngine == InitEngine /\ [][NextEngine]_vars

----------------------------------------------------------------------------
(* The task's file on its own: save_task by the actor that holds the task  *)
(* in memory, load_task by another actor at any moment                     *)

TaskIds == {"t1"}
Goals == {"open the report"}

\* what may have become of a step: its state, error and retry_count
StoredOutcomes ==
    {<<"pending", "none", 0>>, <<"completed", "none", 0>>,
     <<"failed", "timeout", DefaultMaxRetries>>}

\* dependency lists of the n-th step: none, the step before it, or the two
\* ids minted last in that order
StoredDeps(n) ==
    {<<>>} \cup (IF n > 1 THEN {<<StepIds[n - 1]>>, <<StepIds[n], StepIds[n - 1]>>}
                 ELSE {})

RECURSIVE StoredSteps(_)
StoredSteps(n) ==
    IF n = 0 THEN {<<>>}
    ELSE {Append(p, [TaskStep(StepIds[n], kind[1], kind[2], d)
                        EXCEPT !.state = oc[1], !.error = oc[2],
                               !.retry_count = oc[3],
                               !.output = IF oc[1] = "completed"
                                          THEN "out" ELSE "none"]) :
            p \in StoredSteps(n - 1),
            kind \in {<<"file_read", FALSE>>, <<"file_write", TRUE>>},
            oc \in StoredOutcomes, d \in StoredDeps(n)}

\* an actor holds a task that was never saved
InitStore ==
    /\ \E n \in 0..MaxEngineSteps : \E p \in StoredSteps(n) :
          \E id \in TaskIds : \E g \in Goals :
             task = [id |-> id, goal |-> g, state |-> "pending", steps |-> p]
    /\ store = task
    /\ pc = "store"
    /\ batch = <<>>
    /\ cur = 0
    /\ err = "none"
    /\ attempt = 0
    /\ result = FALSE
    /\ safe_mode = TRUE
    /\ interactive = FALSE
    /\ faults = 0
    /\ atask = <<>>
    /\ approvals = 0
    /\ ans = "none"
    /\ verdict = "none"
    /\ calls = 0
    /\ delay = 0
    /\ skill_output = <<>>
    /\ file = NoFile
    /\ loaded = NotLoaded
    /\ UplinkOff
    /\ ChainOff

\* run_loop: task.state = TaskState.RUNNING, before its save_task
SetRunning ==
    /\ pc = "store"
    /\ task.state = "pending"
    /\ task' = [task EXCEPT !.state = "running"]
    /\ UNCHANGED <<store, pc, batch, cur, err, attempt, result, safe_mode,
                   interactive, faults, atask, approvals, locals,
                   skill_output, disk, uplink, chain>>

\* save_task: open(file_path, "w") creates the file or truncates it
SaveOpen ==
    /\ pc = "store"
    /\ file' = EmptyFile
    /\ pc' = "writing"
    /\ UNCHANGED <<task, store, batch, cur, err, attempt, result, safe_mode,
                   interactive, faults, atask, approvals, locals,
                   skill_output, loaded, uplink, chain>>

\* f.write(...): the first part of the document reaches the file
SaveFlush ==
    /\ pc = "writing"
    /\ file = EmptyFile
    /\ file' = PartFile
    /\ UNCHANGED <<task, store, pc, batch, cur, err, attempt, result,
                   safe_mode, interactive, faults, atask, approvals, locals,
                   skill_output, loaded, uplink, chain>>

\* the write is complete and the with-block closes the file
SaveClose ==
    /\ pc = "writing"
    /\ file' = JsonFile(task_to_json(task))
    /\ pc' = "store"
    /\ UNCHANGED <<task, store, batch, cur, err, attempt, result, safe_mode,
                   interactive, faults, atask, approvals, locals,
                   skill_output, loaded, uplink, chain>>

\* model_dump_json or f.write raises (a value that cannot be serialised, a
\* full disk): the with-block closes the file as it is
SaveFail ==
    /\ pc = "writing"
    /\ pc' = "store"
    /\ UNCHANGED <<task, store, batch, cur, err, attempt, result, safe_mode,
                   interactive, faults, atask, approvals, locals,
                   skill_output, disk, uplink, chain>>

\* load_task(task.id) by another actor
LoadTask ==
    /\ loaded' = load_task(file)
    /\ loaded' # loaded
    /\ UNCHANGED <<task, store, pc, batch, cur, err, attempt, result,
                   safe_mode, interactive, faults, atask, approvals, locals,
                   skill_output, file, uplink, chain>>

NextStore ==
    SetRunning \/ SaveOpen \/ SaveFlush \/ SaveClose \/ SaveFail \/ LoadTask

StoreSpec == InitStore /\ [][NextStore]_vars

----------------------------------------------------------------------------
(* Properties of the engine queries, checked under SpecEngine *)

\* every id of step i's dependency list is the id of a completed step
DepsCompleted(t, i) ==
    \A k \in 1..Len(t.steps[i].dependencies) :
        \E j \in 1..Len(t.steps) :
            /\ t.steps[j].id = t.steps[i].dependencies[k]
            /\ t.steps[j].state = "completed"

\* step i is pending, or failed with retries left, and its dependencies are
\* completed
Eligible(t, i) ==
    /\ \/ t.steps[i].state = "pending"
       \/ /\ t.steps[i].state = "failed"
          /\ t.steps[i].retry_count < t.steps[i].max_retries
    /\ DepsCompleted(t, i)

\* C1: every step get_runnable_steps returns has each id of its dependency
\* list equal to the id of a step that is completed; a step with a dependency
\* id that names no step is never returned.
C1_RunnableDepsCompleted ==
    pc = "queried" =>
        \A k \in 1..Len(batch) :
            /\ DepsCompleted(task, batch[k])
            /\ \A d \in 1..Len(task.steps[batch[k]].dependencies) :
                  get_step(task, task.steps[batch[k]].dependencies[d]) # 0

\* a step with a dependency was returned
C1_Witness ==
    /\ pc = "queried"
    /\ \E k \in 1..Len(batch) : Len(task.steps[batch[k]].dependencies) > 0

AllCompleted(t) == \A i \in 1..Len(t.steps) : t.steps[i].state = "completed"

RetriesExhausted(t) ==
    \E i \in 1..Len(t.steps) :
        /\ t.steps[i].state = "failed"
        /\ t.steps[i].retry_count >= t.steps[i].max_retries

\* what C4 says of a call on task t that returned ret and left task u
CompletionContract(t, ret, u) ==
    IF AllCompleted(t) THEN ret /\ u.state = "completed"
    ELSE IF RetriesExhausted(t) THEN ret /\ u.state = "failed"
    ELSE ~ret /\ u.state = t.state

\* C4 as stated: for every task, check_task_completion returns true and sets
\* the state completed if every step is completed, else returns true and
\* sets it failed if some step is failed with retries exhausted, else
\* returns false and leaves the state unchanged.
C4_AsStated ==
    [][(pc = "engine" /\ pc' = "checked") =>
          CompletionContract(task, result', task')]_vars

\* C4 amended: the same for every task with at least one step; for a task
\* with no steps check_task_completion returns false and leaves the state
\* unchanged.
C4_CompletionNonEmpty ==
    [][(pc = "engine" /\ pc' = "checked") =>
          IF Len(task.steps) = 0
          THEN ~result' /\ task'.state = task.state
          ELSE CompletionContract(task, result', task')]_vars

\* a task was found failed: one step completed, the other out of retries
C4_Witness ==
    /\ pc = "checked"
    /\ result
    /\ task.state = "failed"
    /\ \E i \in 1..Len(task.steps) : task.steps[i].state = "completed"

----------------------------------------------------------------------------
(* Properties of the run loop, checked under Spec and FairSpec *)

\* a plan as C3 describes it: not empty, untouched, every step names a
\* registered capability, is not asked about, and depends only on steps
\* before it
PlainPlan(t) ==
    /\ Len(t.steps) > 0
    /\ \A i \in 1..Len(t.steps) :
          /\ t.steps[i].state = "pending"
          /\ t.steps[i].retry_count = 0
          /\ t.steps[i].skill_name \in RegisteredSkills
          /\ ~AskGated(t.steps[i])
          /\ \A k \in 1..Len(t.steps[i].dependencies) :
                /\ get_step(t, t.steps[i].dependencies[k]) # 0
                /\ get_step(t, t.steps[i].dependencies[k]) < i

\* run_loop has returned and the stored task is completed, as is each step
ReturnedCompleted ==
    /\ pc = "done"
    /\ store.state = "completed"
    /\ Len(store.steps) > 0
    /\ AllCompleted(store)

\* C3: in an environment where every step passes the risk check and
\* succeeds on first execution, run_loop on a plain plan terminates, and the
\* task reloaded from the store is completed with every step completed.
C3_PlainPlanCompletes ==
    (pc = "loop" /\ PlainPlan(task)) ~> ReturnedCompleted

\* a plan of MaxPlan steps with a dependency ran to completion
C3_Witness ==
    /\ ReturnedCompleted
    /\ Len(store.steps) = MaxPlan
    /\ \E i \in 1..Len(store.steps) : Len(store.steps[i].dependencies) > 0

\* C5 as stated: once the task's state is completed, failed or cancelled,
\* nothing changes it to a non-terminal state, in the store or in memory.
C5_TerminalIsFinal ==
    [][/\ store.state \in TerminalTaskStates => store'.state \in TerminalTaskStates
       /\ task.state \in TerminalTaskStates => task'.state \in TerminalTaskStates]_vars

\* C6 as stated: a failed execution that ends in self-correction (the step
\* is not completed by a transient retry) raises the step's retry_count by
\* exactly 1, whatever the planner hands back.
C6_OneCountPerFailure ==
    [][(pc = "failure" /\ pc' = "gate" /\ task'.steps[CurIdx].state # "completed") =>
          task'.steps[CurIdx].retry_count = task.steps[CurIdx].retry_count + 1]_vars

C8_SkippedIsFinal ==
    [][\A i \in 1..Len(task.steps) :
          task.steps[i].state = "skipped" => task'.steps[i].state = "skipped"]_vars

\* a replan happened and every step that is not skipped is completed
RecoveryAllSucceeded ==
    /\ \E i \in 1..Len(task.steps) : task.steps[i].state = "skipped"
    /\ \A i \in 1..Len(task.steps) : task.steps[i].state \in {"skipped", "completed"}

\* C9 as stated: once the recovery steps have all succeeded the run loop
\* terminates with the task in a terminal state.
C9_RecoveryTerminates ==
    RecoveryAllSucceeded ~> (pc = "done" /\ task.state \in TerminalTaskStates)

\* the step's capability requires a class the policy denies, whatever the
\* approved flag
Denied(step) ==
    \E perm \in permissions_required(step.skill_name) :
        /\ ~check_permission(perm, FALSE)
        /\ ~check_permission(perm, TRUE)

\* C10 as stated: a step whose capability requires a denied permission class
\* is never executed by run_loop.
C10_DeniedNeverRuns ==
    \A i \in 1..Len(task.steps) :
        Denied(task.steps[i]) => task.steps[i].state \notin {"running", "completed"}

----------------------------------------------------------------------------
(* Properties of the authorization gate *)

\* the step's capability requires a permission class the policy asks about
AskClass(step) ==
    \E perm \in permissions_required(step.skill_name) : PermissionLevel(perm) = "ask"

\* C11: with safe mode on, a step whose capability requires an ask-class
\* permission is admitted to execution only if the prompt for it was answered
\* yes in that iteration, or its approved flag is true in memory or in the
\* stored task at decision time.
C11_AskGateHolds ==
    [][(pc = "gate" /\ pc' = "exec" /\ safe_mode /\ AskClass(CurStep)) =>
          \/ ans' \in {"y", "Y"}
          \/ CurStep.approved
          \/ \E i \in 1..Len(store.steps) :
                store.steps[i].id = CurStep.id /\ store.steps[i].approved]_vars

\* an ask-class step is in execution in safe mode after a yes at the prompt
C11_Witness ==
    /\ pc = "exec"
    /\ safe_mode
    /\ AskClass(CurStep)
    /\ ~CurStep.approved
    /\ ans \in {"y", "Y"}

\* the gate has turned the step down: asked about, no yes, no approved flag
TurnedDown ==
    /\ pc = "gate" /\ pc' = "gate"
    /\ cur <= Len(batch) /\ cur' = cur + 1
    /\ safe_mode
    /\ CurStep.skill_name \in RegisteredSkills
    /\ AskClass(CurStep)
    /\ ~CurStep.approved
    /\ ans' \notin {"y", "Y"}
    /\ ~StoredApproved(CurStep)

\* C12 as stated: in safe mode, an ask-gated step with neither a yes at the
\* prompt nor an approved flag goes to blocked, is not executed in that
\* iteration and is neither failed nor fails the task, in interactive and in
\* daemon mode.
C12_TurnedDownIsBlocked ==
    [][TurnedDown =>
          /\ task'.steps[CurIdx].state = "blocked"
          /\ task'.state \notin TerminalTaskStates]_vars

\* step i is blocked and the store holds an approval for it
BlockedApproved(i) ==
    /\ pc \notin {"idle", "done"}
    /\ i <= Len(task.steps)
    /\ task.steps[i].state = "blocked"
    /\ i <= Len(store.steps)
    /\ store.steps[i].approved

\* C13 as stated: in daemon safe mode, a step that is blocked for lack of
\* approval is executed by the same run loop once the approve command has
\* stored approved = true for it: it eventually is completed.
C13_ApprovedBlockedRuns ==
    \A i \in 1..MaxPlan :
        BlockedApproved(i) ~>
            (i <= Len(task.steps) /\ task.steps[i].state = "completed")

\* C14: in daemon safe mode, when the store holds approved = true for a step
\* whose in-memory copy has no approval, the gate admits the step (it is set
\* running, not blocked) and sets approved = true in the in-memory step.
C14_GateReadsStore ==
    [][(/\ pc = "gate" /\ cur <= Len(batch)
        /\ (cur' # cur \/ pc' # pc)
        /\ safe_mode /\ ~interactive
        /\ CurStep.skill_name \in RegisteredSkills
        /\ AskClass(CurStep) /\ ~CurStep.approved
        /\ \E i \in 1..Len(store.steps) :
              store.steps[i].id = CurStep.id /\ store.steps[i].approved) =>
          /\ pc' = "exec"
          /\ task'.steps[CurIdx].state = "running"
          /\ task'.steps[CurIdx].approved]_vars

\* a step the plan left unapproved is in execution with approved = true
C14_Witness ==
    /\ pc = "exec"
    /\ AskClass(CurStep)
    /\ CurStep.approved
    /\ approvals < MaxApprovals

\* the capabilities C15 names
JudgedSkills == {"shell_command", "file_write", "file_edit", "skill_create"}

\* C15: for a step with one of these capabilities, whatever its approved
\* flag, the gate consults the judge before the step is set running: on
\* approval, or when the judge raises, the step is set running and goes to
\* execution; on rejection it is set failed with the rejection as its error
\* and its skill is not invoked.
C15_JudgeDecides ==
    [][(/\ pc = "gate" /\ cur <= Len(batch)
        /\ CurStep.skill_name \in JudgedSkills
        /\ (pc' = "exec" \/ verdict' # "none")) =>
          \/ /\ verdict' \in {"APPROVE", "raise"}
             /\ pc' = "exec"
             /\ task'.steps[CurIdx].state = "running"
          \/ /\ verdict' = "REJECT"
             /\ pc' = "gate" /\ cur' = cur + 1
             /\ task'.steps[CurIdx].state = "failed"
             /\ task'.steps[CurIdx].error = "Guardrail REJECT"
             /\ calls' = 0]_vars

\* a step that carries approved = true has been rejected by the judge
C15_Witness ==
    /\ verdict = "REJECT"
    /\ \E i \in 1..Len(task.steps) :
          /\ task.steps[i].approved
          /\ task.steps[i].skill_name \in JudgedSkills
          /\ task.steps[i].state = "failed"
          /\ task.steps[i].error = "Guardrail REJECT"

\* C16 as stated: a rejection by the judge sets the step failed without the
\* transient retry or a replan, and no later iteration of the run loop
\* selects the rejected step again.
C16_RejectedIsHeld ==
    [][(pc = "gate" /\ cur <= Len(batch)) =>
          /\ ~(CurStep.state = "failed" /\ CurStep.error = "Guardrail REJECT")
          /\ verdict' = "REJECT" =>
                /\ task'.steps[CurIdx].state = "failed"
                /\ pc' = "gate"
                /\ calls' = 0
                /\ Len(task'.steps) = Len(task.steps)]_vars

\* C17 as stated: a step whose capability is not registered is set failed
\* the first time it is selected, without a skill invocation, the transient
\* retry or a replan, and is never selected again.
C17_UnknownSkillIsTerminal ==
    [][(/\ pc = "gate" /\ cur <= Len(batch)
        /\ CurStep.skill_name \notin RegisteredSkills) =>
          /\ ~(CurStep.state = "failed" /\ CurStep.error = "Skill not found")
          /\ task'.steps[CurIdx].state = "failed"
          /\ pc' = "gate"
          /\ calls' = 0
          /\ Len(task'.steps) = Len(task.steps)]_vars

\* a plan as C18 describes it: untouched, with a step whose capability is
\* not registered, every other step not asked about, dependencies on
\* earlier steps only
UnknownSkillPlan(t) ==
    /\ \E i \in 1..Len(t.steps) : t.steps[i].skill_name \notin RegisteredSkills
    /\ \A i \in 1..Len(t.steps) :
          /\ t.steps[i].state = "pending"
          /\ t.steps[i].retry_count = 0
          /\ t.steps[i].skill_name \in RegisteredSkills => ~AskGated(t.steps[i])
          /\ \A k \in 1..Len(t.steps[i].dependencies) :
                /\ get_step(t, t.steps[i].dependencies[k]) # 0
                /\ get_step(t, t.steps[i].dependencies[k]) < i

\* C18: in an environment where every other step succeeds, run_loop on a
\* plan with a step of an unregistered capability terminates with the task
\* failed, in memory and in the store.
C18_UnknownSkillFailsTask ==
    (pc = "loop" /\ UnknownSkillPlan(task)) ~>
        (pc = "done" /\ task.state = "failed" /\ store.state = "failed")

\* run_loop has returned failed for a task with a completed step and a step
\* of an unregistered capability
C18_Witness ==
    /\ pc = "done"
    /\ store.state = "failed"
    /\ \E i, j \in 1..Len(store.steps) :
          /\ store.steps[i].state = "completed"
          /\ store.steps[j].skill_name \notin RegisteredSkills
          /\ store.steps[j].state = "failed"

----------------------------------------------------------------------------
(* Properties of the step executor and the self-correction controller *)

\* a field of the result that is there and holds something
NonEmpty(v) == v \notin {"absent", "None", ""}
NonZero(v) == v \notin {"absent", "None", "0"}

\* the failure predicate as C19 words it
ClaimedFailed(o) ==
    \/ o.success = "False"
    \/ NonZero(o.exit_code)
    \/ NonEmpty(o.error)
    \/ NonEmpty(o.stderr) /\ NonZero(o.exit_code)

\* C19: the run loop takes a skill result for a failure iff its success
\* field is false, or its exit_code is present and neither 0 nor null, or
\* its error is non-empty, or its stderr is non-empty with a non-zero exit
\* code, whichever of the fields the result has; a failure goes to
\* _handle_step_failure and the step is not completed, anything else sets
\* the step completed.
C19_FailureClassification ==
    [][pc = "exec" =>
          IF ClaimedFailed(skill_output'[1])
          THEN /\ pc' = "failure"
               /\ result'
               /\ task'.steps[CurIdx].state = "running"
          ELSE /\ pc' = "gate"
               /\ ~result'
               /\ task'.steps[CurIdx].state = "completed"]_vars

\* a result that has an exit code only, and that not 0, went to
\* _handle_step_failure
C19_Witness ==
    /\ pc = "failure"
    /\ skill_output # <<>>
    /\ skill_output[1] = [success |-> "absent", exit_code |-> "1",
                          error |-> "absent", stderr |-> "absent"]

\* C20: while _handle_step_failure handles one failure, the skill is
\* invoked again only on a transient error text and at attempt counters 0
\* and 1, after sleeping 1 and 2; at counter 2 or on another error text the
\* step is marked failed and handed to the planner.  The skill is invoked
\* at most 3 times for one execution of the step.
C20_BoundedTransientRetry ==
    [][pc = "failure" =>
          /\ calls <= 3 /\ calls' <= 3
          /\ calls' > calls =>
                /\ err = "timeout"
                /\ attempt \in {0, 1}
                /\ delay' = attempt + 1
          /\ (err # "timeout" \/ attempt >= 2) =>
                /\ pc' = "gate"
                /\ task'.steps[CurIdx].state \in {"failed", "skipped"}
                /\ task'.steps[CurIdx].retry_count > task.steps[CurIdx].retry_count]_vars

\* the handler is at counter 2 after the third invocation
C20_Witness ==
    /\ pc = "failure"
    /\ attempt = 2
    /\ calls = 3
    /\ delay = 2

----------------------------------------------------------------------------
(* C21 *)

\* the retry counts of all steps are the same in both tasks
SameRetryCounts(t, u) ==
    /\ Len(u.steps) = Len(t.steps)
    /\ \A i \in 1..Len(t.steps) : u.steps[i].retry_count = t.steps[i].retry_count

\* C21: a transient retry never changes retry_count: the failed execution
\* and every failed attempt that is followed by another one leave the task
\* and the store as they are (no failed transition), and a successful
\* attempt sets the step completed with its retry_count as before.
C21_RetryKeepsRetryCount ==
    [][/\ (pc = "exec" /\ pc' = "failure") => (task' = task /\ store' = store)
       /\ (pc = "failure" /\ calls' = calls + 1) =>
             /\ SameRetryCounts(task, task')
             /\ SameRetryCounts(store, store')
             /\ pc' = "failure" => (task' = task /\ store' = store)
             /\ pc' = "gate" =>
                   /\ task'.steps[CurIdx].state = "completed"
                   /\ store'.steps[CurIdx].state = "completed"]_vars

\* a retry has succeeded after one failed attempt (the back-off of the
\* second attempt is 2), and the step is completed with no retry counted
C21_Witness ==
    /\ pc = "gate"
    /\ cur > 1
    /\ calls = 3
    /\ delay = backoff(1)
    /\ task.steps[batch[cur - 1]].state = "completed"
    /\ task.steps[batch[cur - 1]].retry_count = 0

----------------------------------------------------------------------------
(* C22 *)

\* what is left of a plan after some of its steps completed: every step is
\* completed or pending with no retry counted, names a registered
\* capability, is not asked about, and depends only on steps before it
PlainRest(t) ==
    \A i \in 1..Len(t.steps) :
       /\ t.steps[i].state \in {"pending", "completed"}
       /\ t.steps[i].retry_count = 0
       /\ t.steps[i].skill_name \in RegisteredSkills
       /\ ~AskGated(t.steps[i])
       /\ \A k \in 1..Len(t.steps[i].dependencies) :
             /\ get_step(t, t.steps[i].dependencies[k]) # 0
             /\ get_step(t, t.steps[i].dependencies[k]) < i

\* the step the for-loop has just left was completed by a transient retry
\* (the skill was invoked again after a back-off)
RetrySucceeded ==
    /\ pc = "gate"
    /\ cur > 1
    /\ calls >= 2
    /\ delay > 0
    /\ task.steps[batch[cur - 1]].state = "completed"

\* some pending step depends on step i
HasDependant(t, i) ==
    \E j \in 1..Len(t.steps) :
       /\ t.steps[j].state = "pending"
       /\ \E k \in 1..Len(t.steps[j].dependencies) :
             t.steps[j].dependencies[k] = t.steps[i].id

\* C22: when a step A that a pending step B depends on has failed
\* transiently and its retry succeeded, and nothing else fails, A is
\* completed, B runs, and run_loop terminates with the task completed.
C22_RetriedPlanCompletes ==
    (RetrySucceeded /\ PlainRest(task) /\ faults = 0
       /\ HasDependant(task, batch[cur - 1]))
    ~> ReturnedCompleted

\* the task is [A, B depends on A]: A was completed by a retry after its
\* first execution failed, B is pending, and nothing else will fail
C22_Witness ==
    /\ RetrySucceeded
    /\ faults = 0
    /\ Len(task.steps) = 2
    /\ batch[cur - 1] = 1
    /\ task.steps[2].state = "pending"
    /\ task.steps[2].dependencies = <<task.steps[1].id>>
    /\ task.steps[2].retry_count = 0

----------------------------------------------------------------------------
(* C23 *)

\* self-correction has ended and the planner's answer appended no step
NoRecovery ==
    /\ pc = "failure"
    /\ pc' = "gate"
    /\ calls' = 0
    /\ Len(task'.steps) = Len(task.steps)

\* the loop head with nothing runnable and a step whose retries are used up
ExhaustedAtLoopHead ==
    /\ pc = "loop"
    /\ task.state \notin TerminalTaskStates
    /\ get_runnable_steps(task) = <<>>
    /\ RetriesExhausted(task)

\* C23: when the planner hands back no recovery (or raises), the failing
\* step is left failed, not skipped, with the error recorded, every other
\* step is as before, the task state is as before and the for-loop goes on;
\* and once a step's retries are used up and nothing is runnable, run_loop
\* returns with the task failed.
C23_NoRecoveryLeavesFailed ==
    /\ [][NoRecovery =>
            /\ task'.steps[CurIdx].state = "failed"
            /\ task'.steps[CurIdx].error = err
            /\ \A i \in 1..Len(task.steps) :
                  i # CurIdx => task'.steps[i] = task.steps[i]
            /\ task'.state = task.state
            /\ store' = task'
            /\ cur' = cur + 1]_vars
    /\ (ExhaustedAtLoopHead
          ~> (pc = "done" /\ task.state = "failed" /\ store.state = "failed"))

\* run_loop has returned with the task failed on a step that used its
\* retries up in two executions the planner found no recovery for
C23_Witness ==
    /\ pc = "done"
    /\ store.state = "failed"
    /\ \E i \in 1..Len(store.steps) :
          /\ store.steps[i].state = "failed"
          /\ store.steps[i].retry_count > store.steps[i].max_retries
          /\ store.steps[i].error \in ErrorTexts \cup FailureTexts

----------------------------------------------------------------------------
(* C24 *)

\* run_loop stays in its for-loop after an execution and after each step of
\* the failure handler: nothing is thrown past it
StaysInLoop ==
    /\ pc = "exec" => pc' \in {"gate", "failure"}
    /\ pc = "failure" => pc' \in {"gate", "failure"}

\* the failure handler returns to the for-loop
HandlerReturns == pc = "failure" /\ pc' = "gate"

\* C24 as stated: a failure raised by validation, execute or a transient
\* retry never leaves run_loop, and when the handler returns it is recorded
\* on the step: the error text, and state failed or skipped.
C24_AsStated ==
    [][/\ StaysInLoop
       /\ HandlerReturns =>
             \/ /\ task'.steps[CurIdx].state = "failed"
                /\ task'.steps[CurIdx].error = err
             \/ /\ task'.steps[CurIdx].state = "skipped"
                /\ task'.steps[CurIdx].error = "Replaced by recovery"]_vars

\* C24: a failure raised by validation, execute or a transient retry never
\* leaves run_loop.  When the handler returns, either a transient retry has
\* succeeded, and the step is completed with its error field as before; or
\* the step is failed, with the text as its error when the text is not
\* empty and its error field as before when it is; or the step is skipped,
\* replaced by recovery.  The store holds what memory holds.
C24_FailureRecordedUnlessRetried ==
    [][/\ StaysInLoop
       /\ HandlerReturns =>
             /\ \/ /\ calls' = calls + 1
                   /\ is_transient(err)
                   /\ task'.steps[CurIdx].state = "completed"
                   /\ task'.steps[CurIdx].error = task.steps[CurIdx].error
                \/ /\ calls' = 0
                   /\ task'.steps[CurIdx].state = "failed"
                   /\ task'.steps[CurIdx].error =
                         IF err # "" THEN err ELSE task.steps[CurIdx].error
                \/ /\ calls' = 0
                   /\ task'.steps[CurIdx].state = "skipped"
                   /\ task'.steps[CurIdx].error = "Replaced by recovery"
             /\ store' = task']_vars

\* an execution raised, the first retry succeeded, and the step is
\* completed with no error recorded
C24_Witness ==
    /\ pc = "gate"
    /\ cur > 1
    /\ calls = 2
    /\ delay = backoff(0)
    /\ task.steps[batch[cur - 1]].state = "completed"
    /\ task.steps[batch[cur - 1]].error = "none"

----------------------------------------------------------------------------
(* C25 *)

\* the fields C25 lists are the same in both steps
SameStepFields(a, b) ==
    /\ a.id = b.id
    /\ a.skill_name = b.skill_name
    /\ a.approved = b.approved
    /\ a.state = b.state
    /\ a.error = b.error
    /\ a.retry_count = b.retry_count
    /\ a.max_retries = b.max_retries
    /\ a.dependencies = b.dependencies

\* the fields C25 lists are the same in both tasks
SameTaskFields(t, u) ==
    /\ t.id = u.id
    /\ t.goal = u.goal
    /\ t.state = u.state
    /\ Len(t.steps) = Len(u.steps)
    /\ \A i \in 1..Len(t.steps) : SameStepFields(t.steps[i], u.steps[i])

\* save_task(task) returns
SaveReturns == pc = "writing" /\ pc' = "store" /\ file'.kind = "json"

----------------------------------------------------------------------------
(* C26 *)

\* C26 as stated: save_task is atomic.  A file that holds a whole record
\* holds a whole record after every step of a save, the failing ones
\* included, and a load_task by another actor never finds an empty or
\* partial record: it gives a Task, or None when nothing was ever saved.
C26_SaveIsAtomic ==
    [][/\ file.kind = "json" => file'.kind = "json"
       /\ loaded' # loaded => loaded'.status \in {"None", "Task"}]_vars

----------------------------------------------------------------------------
(* C27, C28: the approve command beside the run loop, under ApproveSpec *)

\* the approve command returns (after its save, or with "Step not found.")
ApproveReturns == atask # <<>> /\ atask' = <<>>

\* C27 as stated: whatever the run loop saved between approve's load and
\* its save, the record after approve's write has the steps the record
\* before it had, each with the same state, output, error and retry_count,
\* and the same task state; if the step id is unknown nothing is written.
C27_ApproveWritesOnlyFlag ==
    [][ApproveReturns =>
         /\ store'.state = store.state
         /\ Len(store'.steps) = Len(store.steps)
         /\ \A i \in 1..Len(store.steps) :
               /\ store'.steps[i].state = store.steps[i].state
               /\ store'.steps[i].output = store.steps[i].output
               /\ store'.steps[i].error = store.steps[i].error
               /\ store'.steps[i].retry_count = store.steps[i].retry_count
         /\ approvals' = approvals => store' = store]_vars

\* C28: the store is last-write-wins.  Every write replaces the whole
\* record by the writer's copy: a run-loop save by its in-memory task, so
\* that an approved flag the store holds and memory lacks is gone after it,
\* and approve's save by the task it loaded with the flag set.
C28_LastWriteWins ==
    [][store' # store =>
         IF atask' = atask
         THEN /\ store' = task'
              /\ \A i \in 1..Len(store'.steps) :
                    store'.steps[i].approved = task'.steps[i].approved
         ELSE \E i \in 1..Len(atask[1].steps) :
                 store' = [atask[1] EXCEPT !.steps[i].approved = TRUE]]_vars

\* a lost update: the one approve command has written its flag, and no
\* step of the stored task or of the task in memory carries it
C28_Witness ==
    /\ approvals = MaxApprovals - 1
    /\ atask = <<>>
    /\ Len(store.steps) > 0
    /\ \A i \in 1..Len(store.steps) : ~store.steps[i].approved
    /\ \A i \in 1..Len(task.steps) : ~task.steps[i].approved

----------------------------------------------------------------------------
(* C29 *)

\* at most one step of t is running
OneRunning(t) ==
    \A i, j \in 1..Len(t.steps) :
       (t.steps[i].state = "running" /\ t.steps[j].state = "running") => i = j

\* C29 as stated: at most one step is running, in the task run_loop holds
\* and in the store, and a step is set running only when no step is
\* running: the step that ran before it has been set completed, failed or
\* skipped.
C29_OneStepInFlight ==
    [][/\ OneRunning(task')
       /\ OneRunning(store')
       /\ \A i \in 1..Len(task'.steps) :
             (/\ task'.steps[i].state = "running"
              /\ i <= Len(task.steps)
              /\ task.steps[i].state # "running") =>
                \A j \in 1..Len(task.steps) : task.steps[j].state # "running"]_vars

----------------------------------------------------------------------------
(* C30 *)

\* the task state agrees with the steps' states
DerivedState(t) ==
    /\ t.state = "completed" => (Len(t.steps) > 0 /\ AllCompleted(t))
    /\ t.state = "failed" => RetriesExhausted(t)

\* C30: in memory and in the store, a completed task has every step
\* completed and a failed task has a step that is failed with retry_count
\* >= max_retries; and the task state changes only to running, or at the
\* loop head to what check_task_completion derives from the steps.
C30_TaskStateDerived ==
    [][/\ DerivedState(task')
       /\ DerivedState(store')
       /\ task'.state # task.state =>
             \/ task'.state = "running"
             \/ /\ pc = "loop"
                /\ check_task_completion(task).ret
                /\ task' = check_task_completion(task).task
                /\ store' = task']_vars

\* run_loop has returned with the task failed: one step is completed and
\* another is failed with its retries used up
C30_Witness ==
    /\ pc = "done"
    /\ task.state = "failed"
    /\ store.state = "failed"
    /\ RetriesExhausted(store)
    /\ \E i \in 1..Len(store.steps) : store.steps[i].state = "completed"

-----------------------------------------------------------------------------
(* The Telegram uplink: handle_message, _run_scheduled_goal and /stop *)

\* steps a plan or a recovery plan of the uplink holds at most
MaxUplinkSteps == 2

\* ORBIT_UPLINK_REPLAN_MAX, "1" when the variable is not set
max_replans == 1

\* what run_loop and the engine own; the uplink executes steps directly
core == <<task, store, pc, batch, cur, err, attempt, result, safe_mode,
          interactive, faults, atask, approvals, locals, skill_output, disk>>

\* self.active_tasks[k] = v
dict_set(d, k, v) == [x \in (DOMAIN d) \cup {k} |-> IF x = k THEN v ELSE d[x]]

\* del self.active_tasks[k], guarded by `k in self.active_tasks`
dict_del(d, k) == [x \in (DOMAIN d) \ {k} |-> d[x]]

\* the Application is built without concurrent_updates and the handlers
\* block: an update is handled after the handler of the one before returned
HandlerBusy ==
    \E r \in RunIds : loops[r].kind = "message" /\ loops[r].pc \notin {"off", "done"}

\* _scheduler_loop awaits _run_scheduled_goal: one job runs at a time
JobBusy ==
    \E r \in RunIds : loops[r].kind = "scheduled" /\ loops[r].pc \notin {"off", "done"}

\* handle_message up to `task = await self.agent.create_task(goal)`
MessagePlan(r, u) ==
    /\ loops[r].kind = "none"
    /\ ~HandlerBusy
    /\ \E n \in 0..MaxUplinkSteps :
          loops' = [loops EXCEPT ![r] = [NoLoop EXCEPT !.kind = "message",
                                         !.user = u, !.pc = "planned", !.n = n]]
    /\ UNCHANGED <<active_tasks, stopped, core, chain>>

\* `if not task.steps: ... return`, else self.active_tasks[user_id] = task.id
MessageRegister(r) ==
    /\ loops[r].kind = "message"
    /\ loops[r].pc = "planned"
    /\ IF loops[r].n = 0
       THEN /\ loops' = [loops EXCEPT ![r].pc = "done"]
            /\ UNCHANGED active_tasks
       ELSE /\ loops' = [loops EXCEPT ![r].pc = "head"]
            /\ active_tasks' = dict_set(active_tasks, loops[r].user, r)
    /\ UNCHANGED <<stopped, core, chain>>

\* head of `while i < len(steps)`: the user has no entry, the loop returns
MessageCancelled(r) ==
    /\ loops[r].kind = "message"
    /\ loops[r].pc = "head"
    /\ loops[r].user \notin DOMAIN active_tasks
    /\ loops' = [loops EXCEPT ![r].pc = "done"]
    /\ UNCHANGED <<active_tasks, stopped, core, chain>>

\* the cancellation check passes and the step's skill is executed
MessageStart(r) ==
    /\ loops[r].kind = "message"
    /\ loops[r].pc = "head"
    /\ loops[r].user \in DOMAIN active_tasks
    /\ loops' = [loops EXCEPT ![r].pc = "exec"]
    /\ UNCHANGED <<active_tasks, stopped, core, chain>>

\* the loop is left (condition false, break, return of the job): the
\* user's entry is deleted whatever task it names
LoopExit(r) ==
    /\ loops' = [loops EXCEPT ![r].pc = "done"]
    /\ active_tasks' = dict_del(active_tasks, loops[r].user)

\* the step did not fail: i += 1
MessageStepOk(r) ==
    /\ loops[r].kind = "message"
    /\ loops[r].pc = "exec"
    /\ IF loops[r].i + 1 < loops[r].n
       THEN /\ loops' = [loops EXCEPT ![r].pc = "head", ![r].i = @ + 1]
            /\ UNCHANGED active_tasks
       ELSE LoopExit(r)
    /\ UNCHANGED <<stopped, core, chain>>

\* the step failed or raised and a recovery plan replaces the steps
MessageReplan(r) ==
    /\ loops[r].kind = "message"
    /\ loops[r].pc = "exec"
    /\ loops[r].replans_done < max_replans
    /\ \E n \in 1..MaxUplinkSteps :
          loops' = [loops EXCEPT ![r].pc = "head", ![r].i = 0, ![r].n = n,
                                 ![r].replans_done = @ + 1]
    /\ UNCHANGED <<active_tasks, stopped, core, chain>>

\* the step failed or raised and no recovery plan is tried or found: break
MessageStepFail(r) ==
    /\ loops[r].kind = "message"
    /\ loops[r].pc = "exec"
    /\ LoopExit(r)
    /\ UNCHANGED <<stopped, core, chain>>

\* _scheduler_loop finds a due job whose user has no entry and calls
\* _run_scheduled_goal, which awaits create_task
JobPlan(r, u) ==
    /\ loops[r].kind = "none"
    /\ ~JobBusy
    /\ u \notin DOMAIN active_tasks
    /\ \E n \in 0..MaxUplinkSteps :
          loops' = [loops EXCEPT ![r] = [NoLoop EXCEPT !.kind = "scheduled",
                                         !.user = u, !.pc = "planned", !.n = n]]
    /\ UNCHANGED <<active_tasks, stopped, core, chain>>

\* `if not task.steps: ... return` under the finally clause, else
\* self.active_tasks[user_id] = str(task.id)
JobRegister(r) ==
    /\ loops[r].kind = "scheduled"
    /\ loops[r].pc = "planned"
    /\ IF loops[r].n = 0
       THEN LoopExit(r)
       ELSE /\ loops' = [loops EXCEPT ![r].pc = "head"]
            /\ active_tasks' = dict_set(active_tasks, loops[r].user, r)
    /\ UNCHANGED <<stopped, core, chain>>

\* `for step in task.steps`: the next step's skill is executed
JobStart(r) ==
    /\ loops[r].kind = "scheduled"
    /\ loops[r].pc = "head"
    /\ loops' = [loops EXCEPT ![r].pc = "exec"]
    /\ UNCHANGED <<active_tasks, stopped, core, chain>>

\* the step did not fail
JobStepOk(r) ==
    /\ loops[r].kind = "scheduled"
    /\ loops[r].pc = "exec"
    /\ IF loops[r].i + 1 < loops[r].n
       THEN /\ loops' = [loops EXCEPT ![r].pc = "head", ![r].i = @ + 1]
            /\ UNCHANGED active_tasks
       ELSE LoopExit(r)
    /\ UNCHANGED <<stopped, core, chain>>

\* the step failed (return) or raised
JobStepFail(r) ==
    /\ loops[r].kind = "scheduled"
    /\ loops[r].pc = "exec"
    /\ LoopExit(r)
    /\ UNCHANGED <<stopped, core, chain>>

\* cmd_stop of a user who has an entry: task = self.active_tasks.pop(user_id)
CmdStop(u) ==
    /\ ~HandlerBusy
    /\ u \in DOMAIN active_tasks
    /\ stopped' = stopped \cup {active_tasks[u]}
    /\ active_tasks' = dict_del(active_tasks, u)
    /\ UNCHANGED <<loops, core, chain>>

InitUplink ==
    /\ InitRunLoop(0)
    /\ store = Task(<<>>)
    /\ ~safe_mode
    /\ ~interactive
    /\ UplinkIdle
    /\ ChainOff

NextUplink ==
    \/ \E r \in RunIds, u \in Users : MessagePlan(r, u)
    \/ \E r \in RunIds : MessageRegister(r)
    \/ \E r \in RunIds : MessageCancelled(r)
    \/ \E r \in RunIds : MessageStart(r)
    \/ \E r \in RunIds : MessageStepOk(r)
    \/ \E r \in RunIds : MessageReplan(r)
    \/ \E r \in RunIds : MessageStepFail(r)
    \/ \E r \in RunIds, u \in Users : JobPlan(r, u)
    \/ \E r \in RunIds : JobRegister(r)
    \/ \E r \in RunIds : JobStart(r)
    \/ \E r \in RunIds : JobStepOk(r)
    \/ \E r \in RunIds : JobStepFail(r)
    \/ \E u \in Users : CmdStop(u)

UplinkSpec == InitUplink /\ [][NextUplink]_vars

\* C31: once /stop has removed a task's entry from the active set, the
\* loop driving that task starts no further step
C31_NoStepAfterStop ==
    [][\A r \in RunIds :
          r \in stopped => ~(loops[r].pc = "head" /\ loops'[r].pc = "exec")]_vars

-----------------------------------------------------------------------------
(* core/planner.py: step ids are the ones the planning model writes *)

\* the ids a plan may carry: s.get("id", ...) takes the id of the model's
\* answer as it is, and nothing compares it with the ids the task holds
AnyIds == {StepIds[k] : k \in 1..MaxSteps}

\* Planner.replan: a non-empty list of steps, each with any id and
\* depending on nothing or on the id of the step before it in the answer
RECURSIVE ReplanOfLen(_)
ReplanOfLen(n) ==
    IF n = 0 THEN {<<>>}
    ELSE UNION {{Append(p, TaskStep(id, "file_read", FALSE, d)) :
                    id \in AnyIds,
                    d \in {<<>>} \cup (IF n > 1 THEN {<<p[n - 1].id>>} ELSE {})} :
                p \in ReplanOfLen(n - 1)}

Replans(t) ==
    UNION {ReplanOfLen(n) : n \in 1..(MaxSteps - Len(t.steps))}

\* the planner hands back recovery steps under ids of its choosing
SelfCorrectReplan ==
    /\ pc = "failure"
    /\ ~RetryBranch
    /\ \E plan \in Replans(task) :
          task' = apply_recovery(mark_failed_once(task, CurStep, err), CurStep, plan)
    /\ store' = task'
    /\ err' = "none"
    /\ attempt' = 0
    /\ ans' = "none"
    /\ verdict' = "none"
    /\ calls' = 0
    /\ delay' = 0
    /\ cur' = cur + 1
    /\ pc' = "gate"
    /\ UNCHANGED <<batch, result, safe_mode, interactive, faults, atask,
                   approvals, skill_output, disk, uplink, chain>>

ReplanLoop ==
    \/ LoopBatch \/ LoopFinish \/ LoopWait \/ Wake \/ BatchEnd
    \/ GateGuardrailReject \/ GateAdmit \/ ExecOk \/ ExecFail
    \/ RetryOk \/ RetryFail \/ SelfCorrectNone \/ SelfCorrectReplan

NextReplan == RunLoopStart \/ ReplanLoop

ReplanSpec == InitHandler /\ [][NextReplan]_vars

\* the step at the for-loop is set running and its skill invoked
Invoked == pc = "gate" /\ pc' = "exec"

\* every step a dependency of step names is completed in t, and every
\* dependency names a step
DependenciesCompleted(t, step) ==
    \A k \in 1..Len(step.dependencies) :
       /\ get_step(t, step.dependencies[k]) # 0
       /\ \A j \in 1..Len(t.steps) :
             t.steps[j].id = step.dependencies[k] => t.steps[j].state = "completed"

\* C32: whenever a step's skill is invoked, every step in its dependency
\* list is completed at that moment
C32_DependenciesCompletedAtInvocation ==
    [][Invoked => DependenciesCompleted(task', CurStep)]_vars

-----------------------------------------------------------------------------
(* core/agent.py: the transient retry of _handle_step_failure, its result *)
(* kept                                                                   *)

\* the retry executes the skill again and gets the result o: a truthy
\* error recurses with retry_count + 1, anything else sets the step
\* completed (the same lines as RetryOk and RetryFail, the result kept)
RetryClassify ==
    /\ pc = "failure"
    /\ RetryBranch
    /\ \E o \in SkillOutputs :
          /\ skill_output' = <<o>>
          /\ IF truthy(getattr(o, "error", "None"))
             THEN /\ err' = o.error
                  /\ attempt' = attempt + 1
                  /\ UNCHANGED <<task, store, cur, pc>>
             ELSE /\ task' = update_step_state(task, CurStep.id, "completed",
                                               "out", "none")
                  /\ store' = task'
                  /\ err' = "none"
                  /\ attempt' = 0
                  /\ cur' = cur + 1
                  /\ pc' = "gate"
    /\ calls' = calls + 1
    /\ delay' = backoff(attempt)
    /\ UNCHANGED <<batch, result, safe_mode, interactive, faults, atask,
                   approvals, ans, verdict, disk, uplink, chain>>

NextRetryClassify == ExecClassify \/ RetryClassify

RetryClassifySpec == InitClassify /\ [][NextRetryClassify]_vars

\* C33: a retry result is recorded completed only if the failure detection
\* of the normal path takes the same result for a success
C33_RetrySamePredicate ==
    [][(pc = "failure" /\ RetryBranch /\ task'.steps[CurIdx].state = "completed") =>
          ~failed(skill_output'[1])]_vars

-----------------------------------------------------------------------------
(* C34 *)

\* C34: with no other writer, at the start of every run-loop iteration the
\* stored task equals the in-memory task: step list, states, errors,
\* outputs, retry counters, configurations and task state
C34_StoreMatchesMemory == pc = "loop" => store = task

\* the loop head after a batch in which a step completed and a replan
\* skipped a step and appended another
C34_Witness ==
    /\ pc = "loop"
    /\ \E i \in 1..Len(task.steps) : task.steps[i].state = "completed"
    /\ \E i \in 1..Len(task.steps) : task.steps[i].state = "skipped"
    /\ \E i \in 1..Len(task.steps) : task.steps[i].state = "pending"
    /\ store = task

-----------------------------------------------------------------------------
(* C35 *)

\* C35: the step ids of the task are pairwise distinct in every reachable
\* state, after a replan appended recovery steps too, so that get_step on
\* the id of the step at the for-loop finds that very step
C35_StepIdsDistinct ==
    /\ \A i, j \in 1..Len(task.steps) :
          i # j => task.steps[i].id # task.steps[j].id
    /\ (pc \in {"gate", "exec", "failure"} /\ cur <= Len(batch)) =>
          get_step(task, CurStep.id) = CurIdx

-----------------------------------------------------------------------------
(* C36 *)

\* C36: once a step is completed its state and output never change again
\* and its skill is never invoked again, whatever run-loop iterations,
\* transient retries and replans follow
C36_CompletedIsFinal ==
    [][/\ \A i \in 1..Len(task.steps) :
             task.steps[i].state = "completed" =>
                /\ task'.steps[i].state = "completed"
                /\ task'.steps[i].output = task.steps[i].output
       /\ Invoked => CurStep.state # "completed"]_vars

-----------------------------------------------------------------------------
(* core/agent.py: the coordinate chaining before a step's execution *)

\* steps of the task the executor searches
MaxChainSteps == 3

\* skill_config of the step at the executor: the action, and x and y, each
\* "absent" (no such key), "None", or a number written in digits
ChainConfigs ==
    [action : {"click", "Click", "type"}, x : {"None", "0"}, y : {"absent", "0"}]

\* what a step's output field holds: None, the printed result (a str), or
\* the result's model_dump(), a dict whose key "coordinates" is absent,
\* None or a list of integers
ChainOutputs ==
    {[kind |-> "None", key |-> "absent", coordinates |-> <<>>],
     [kind |-> "dict", key |-> "None", coordinates |-> <<>>],
     [kind |-> "dict", key |-> "list", coordinates |-> <<"1", "2">>],
     [kind |-> "dict", key |-> "list", coordinates |-> <<"3", "4">>],
     [kind |-> "dict", key |-> "list", coordinates |-> <<"1", "2", "3">>]}

\* a step of the chained task
ChainStep(id, skill, config, state, output) ==
    [id |-> id, skill_name |-> skill, skill_config |-> config,
     state |-> state, output |-> output]

\* output = None
NoOutput == [kind |-> "None", key |-> "absent", coordinates |-> <<>>]

\* the configuration of a step that is no click
LocateConfig == [action |-> "absent", x |-> "absent", y |-> "absent"]

\* the steps before and after the one at the executor: completed or
\* skipped with any output, or pending with none
ChainOthers ==
    {ChainStep("id", "som_vision", LocateConfig, st, o) :
        st \in {"completed", "skipped"}, o \in ChainOutputs}
    \cup {ChainStep("id", "som_vision", LocateConfig, "pending", NoOutput)}

\* str(step.skill_config.get("action", "")).lower()
action_lower(a) ==
    IF a = "absent" THEN "" ELSE IF a = "Click" THEN "click" ELSE a

\* step.skill_config.get(key) is not None
config_has(v) == v \notin {"absent", "None"}

\* coords as the loop body reads it from prev.output: the dict's
\* "coordinates", None (written <<>>) when output is no dict or lacks it
output_coords(o) ==
    IF o.kind = "dict" /\ o.key = "list" THEN o.coordinates ELSE <<>>

\* the search with the steps taken first to last
RECURSIVE chain_search_forward(_, _, _)
chain_search_forward(t, step, k) ==
    IF k > Len(t.steps) THEN <<>>
    ELSE LET prev == t.steps[k]
             coords == output_coords(prev.output)
         IN  IF prev.id = step.id THEN chain_search_forward(t, step, k + 1)
             ELSE IF prev.state \notin {"completed", "skipped"}
             THEN chain_search_forward(t, step, k + 1)
             ELSE IF Len(coords) = 2 THEN coords
             ELSE chain_search_forward(t, step, k + 1)

\* `for prev in reversed(task.steps)` from position k down: the first
\* two-element coordinates found, <<>> when the loop ends without a break
RECURSIVE chain_search(_, _, _)
chain_search(t, step, k) ==
    IF k = 0 THEN <<>>
    ELSE LET prev == t.steps[k]
             coords == output_coords(prev.output)
         IN  IF prev.id = step.id THEN chain_search(t, step, k - 1)
             ELSE IF prev.state \notin {"completed", "skipped"}
             THEN chain_search(t, step, k - 1)
             ELSE IF Len(coords) = 2 THEN coords
             ELSE chain_search(t, step, k - 1)

\* the chaining that starts its search at the first step
chain_config_oldest(t, i) ==
    LET step == t.steps[i]
        cfg == step.skill_config
    IN  IF /\ step.skill_name = "computer_control"
           /\ action_lower(cfg.action) = "click"
           /\ ~(config_has(cfg.x) /\ config_has(cfg.y))
        THEN LET coords == chain_search_forward(t, step, 1)
             IN  IF coords = <<>> THEN cfg
                 ELSE [cfg EXCEPT !.x = coords[1], !.y = coords[2]]
        ELSE cfg

\* the step's configuration after the chaining; int() of a list element,
\* an integer by the result's field type, is that integer
chain_config(t, i) ==
    LET step == t.steps[i]
        cfg == step.skill_config
    IN  IF /\ step.skill_name = "computer_control"
           /\ action_lower(cfg.action) = "click"
           /\ ~(config_has(cfg.x) /\ config_has(cfg.y))
        THEN LET coords == chain_search(t, step, Len(t.steps))
             IN  IF coords = <<>> THEN cfg
                 ELSE [cfg EXCEPT !.x = coords[1], !.y = coords[2]]
        ELSE cfg

\* a task of n steps whose i-th step is at the executor with the
\* configuration cfg.  The other steps carry ids of their own, but for at
\* most one, which carries the id of the i-th: of two steps with one id the
\* first is the one update_step_state has set running, the second is as
\* the planner made it
ChainTask(n, i, sk, cfg, others, dup) ==
    [k \in 1..n |->
        IF k = i
        THEN ChainStep(StepIds[i], sk, cfg,
                       IF dup \in 1..(i - 1) THEN "pending" ELSE "running", NoOutput)
        ELSE IF k = dup
        THEN IF k < i
             THEN [others[k] EXCEPT !.id = StepIds[i], !.state = "running"]
             ELSE ChainStep(StepIds[i], "som_vision", LocateConfig, "pending", NoOutput)
        ELSE [others[k] EXCEPT !.id = StepIds[k]]]

\* a step has been set running and the executor is about to validate its
\* configuration
InitChain ==
    /\ InitRunLoop(0)
    /\ store = Task(<<>>)
    /\ ~safe_mode
    /\ ~interactive
    /\ UplinkOff
    /\ \E n \in 1..MaxChainSteps : \E i \in 1..n :
          \E sk \in {"computer_control", "som_vision"}, cfg \in ChainConfigs,
             others \in [(1..n) \ {i} -> ChainOthers], dup \in (0..n) \ {i} :
             /\ ctask = [state |-> "running",
                         steps |-> ChainTask(n, i, sk, cfg, others, dup)]
             /\ cstep = i

\* the chaining runs for the step
Chain ==
    /\ cstep # 0
    /\ ctask' = [ctask EXCEPT !.steps[cstep].skill_config = chain_config(ctask, cstep)]
    /\ cstep' = 0
    /\ UNCHANGED <<core, uplink>>

NextChain == Chain

ChainSpec == InitChain /\ [][NextChain]_vars

\* the configuration C37 describes for step i of t
IsClickStep(step) ==
    step.skill_name = "computer_control" /\ action_lower(step.skill_config.action) = "click"

LacksCoordinates(step) ==
    ~(config_has(step.skill_config.x) /\ config_has(step.skill_config.y))

CoordinateSources(t, i) ==
    {k \in (1..Len(t.steps)) \ {i} :
        /\ t.steps[k].state \in {"completed", "skipped"}
        /\ Len(output_coords(t.steps[k].output)) = 2}

LastSource(t, i) ==
    CHOOSE k \in CoordinateSources(t, i) : \A j \in CoordinateSources(t, i) : j <= k

ChainedConfig(t, i) ==
    LET step == t.steps[i] IN
    IF IsClickStep(step) /\ LacksCoordinates(step) /\ CoordinateSources(t, i) # {}
    THEN [step.skill_config EXCEPT
            !.x = output_coords(t.steps[LastSource(t, i)].output)[1],
            !.y = output_coords(t.steps[LastSource(t, i)].output)[2]]
    ELSE step.skill_config

-----------------------------------------------------------------------------
(* C38 *)

\* C38: in every reachable state each step's retry_count is at most its
\* max_retries
C38_RetryCountBounded ==
    \A i \in 1..Len(task.steps) :
       task.steps[i].retry_count <= task.steps[i].max_retries

-----------------------------------------------------------------------------
(* A run that is interrupted while a skill executes, and resumed *)

\* the process ends during `await skill.execute(...)`: the in-memory task
\* is gone, the file holds the step as update_step_state saved it, running
Interrupt ==
    /\ pc = "exec"
    /\ pc' = "idle"
    /\ task' = store
    /\ batch' = <<>>
    /\ cur' = 0
    /\ ans' = "none"
    /\ verdict' = "none"
    /\ calls' = 0
    /\ delay' = 0
    /\ UNCHANGED <<store, err, attempt, result, safe_mode, interactive, faults,
                   atask, approvals, skill_output, disk, uplink, chain>>

NextResume == RunLoopStart \/ FaultFreeLoop \/ Interrupt

\* run_loop(task_id) is called again after an interruption, and once
\* called it keeps stepping
ResumeSpec ==
    InitWith(0) /\ [][NextResume]_vars /\ WF_vars(RunLoopStart \/ FaultFreeLoop)

\* C39: a task resumed with a step persisted as running is resumable: that
\* step is eventually executed again or the task reaches a terminal state
C39_ResumedStepRunsAgain ==
    \A i \in 1..MaxSteps :
       (pc = "loop" /\ i <= Len(task.steps) /\ task.steps[i].state = "running")
          ~> (task.state \in TerminalTaskStates \/ (pc = "exec" /\ CurIdx = i))

-----------------------------------------------------------------------------
(* C40 *)

\* C40: run_loop on a task whose step list is empty terminates: the task
\* reaches a terminal state or the loop returns
C40_EmptyPlanTerminates ==
    (pc = "loop" /\ Len(task.steps) = 0)
       ~> (pc = "done" \/ task.state \in TerminalTaskStates)

====
